---- MODULE Spec2Model ----
(***************************************************************************)
(* Model of the request orchestration of the detail-page maker:            *)
(*   - generateImage, the model-fallback retry wrapper of the Gemini       *)
(*     service (services/geminiService), with getClient and the            *)
(*     string-matching error classification it performs;                   *)
(*   - the sequential batch processor of components/Workspace.tsx          *)
(*     (handleBatchAnalyze, handleBatchGenerate, generateSingleItem,       *)
(*     handleServiceError) over the store (store/useAppStore);             *)
(*   - withRetry, the retry wrapper of the text calls, and the two error   *)
(*     classifications (handleGeminiError, the catch block of              *)
(*     generateImage) applied to the same message;                         *)
(*   - the reference step of components/Workspace.tsx (stitchImages,       *)
(*     handleConfirmReference) and the image normalizer                    *)
(*     optimizeImageForAPI.                                                *)
(***************************************************************************)
EXTENDS Integers, Sequences, FiniteSets, TLC

VARIABLES
    store,           \* the zustand store (useAppStore) and the browser
                     \* storage it is persisted to, one record
    nextId,          \* number of ids generateId has handed out
    isBatchProcessing, \* Workspace state isBatchProcessing
    bpc,             \* position inside the running batch handler
    batchKind,       \* "analyze" | "generate": which handler is running
    targets,         \* `targets`: the items captured when the batch began
    idx,             \* index into targets of the for-of loop
    svcPending,      \* the awaited service operation: "none"|"net"|"nokey"
    svcLog,          \* service operations of the current batch, in order
    batches,         \* number of batch runs started
    gpc,             \* position inside one invocation of a retry wrapper:
                     \* generateImage or withRetry
    modelIdx,        \* index into modelsToTry of the for-of loop
    attempt,         \* loop variable of the retry loop: `attempt` of
                     \* generateImage, `i` of withRetry
    lastError,       \* `lastError`: << >> (null) or <<message>>
    onStatusUpdate,  \* TRUE iff the optional progress callback was passed
    log,             \* observable history of the invocation, oldest first
    inFlight,        \* number of ai.models.generateContent calls awaiting
    thrown,          \* what the invocation raised: << >> or <<message>>
    stagedRefImages, \* Workspace state stagedRefImages
    isStitching,     \* Workspace state isStitching
    cpc,             \* position inside handleConfirmReference/stitchImages
    images,          \* `images`: the argument of the running stitchImages
    canvas,          \* the canvas stitchImages built: << >> or <<record>>
    finalImage,      \* `finalImage`: << >> or <<result of stitchImages>>
    base64Str,       \* the image given to optimizeImageForAPI
    maxDimension,    \* `maxDimension` of optimizeImageForAPI
    opc,             \* position inside optimizeImageForAPI
    optimized,       \* what optimizeImageForAPI resolved with: << >> or <<r>>
    ops,             \* the single-item handlers of Workspace.tsx that are
                     \* suspended at an await, one record each
    opCount,         \* number of single-item handlers started
    activeEditItem,  \* Workspace state activeEditItem: << >> or <<id>>
    isRepairing,     \* Workspace state isRepairing
    apc,             \* position inside handleSubmit of the AuthModal
    rpc,             \* position inside restoreSession
    tprocs,          \* the runs of processThumbnail that are suspended at
                     \* an await, one record each
    tCount,          \* number of processThumbnail runs started
    lastSession      \* the last checkSession() that settled: << >> or
                     \* <<[answer, result]>>

gvars == <<gpc, modelIdx, attempt, lastError, onStatusUpdate, log,
           inFlight, thrown>>

bvars == <<nextId, isBatchProcessing, bpc, batchKind, targets, idx,
           svcPending, svcLog, batches>>

\* the reference step and the image normalizer
xvars == <<stagedRefImages, isStitching, cpc, images, canvas, finalImage,
           base64Str, maxDimension, opc, optimized>>

rvars == <<stagedRefImages, isStitching, cpc, images, canvas, finalImage>>

ovars == <<base64Str, maxDimension, opc, optimized>>

\* the single-item handlers of the workspace
\* login, session restore and the thumbnail step
svars == <<apc, rpc, tprocs, tCount, lastSession>>

wvars == <<ops, opCount, activeEditItem, isRepairing, svars>>

vars == <<store, gvars, bvars, xvars, wvars>>

(***************************************************************************)
(* Error messages.  A message is the set of the distinctive fragments it   *)
(* contains; String.includes and String.toLowerCase are computed on the    *)
(* fragments.                                                              *)
(***************************************************************************)

\* s.toLowerCase() of one fragment
ToLowerCase(t) ==
    CASE t = "API key"            -> "api key"
      [] t = "API Key"            -> "api key"
      [] t = "API_KEY_INVALID"    -> "api_key_invalid"
      [] t = "PERMISSION_DENIED"  -> "permission_denied"
      [] t = "RESOURCE_EXHAUSTED" -> "resource_exhausted"
      [] t = "UNAUTHENTICATED"    -> "unauthenticated"
      [] t = "NOT_FOUND"          -> "not_found"
      [] t = "Overloaded"         -> "overloaded"
      [] t = "Internal"           -> "internal"
      [] t = "SAFETY"             -> "safety"
      [] t = "[AUTH_ERROR]"       -> "[auth_error]"
      [] t = "Empty image response" -> "empty image response"
      [] OTHER                    -> t

\* the search strings of the code that occur inside one fragment
Needles(t) ==
    CASE t = "API key"            -> {"API key", "key"}
      [] t = "api key"            -> {"key"}
      [] t = "API Key"            -> {}
      [] t = "api_key_invalid"    -> {"key"}
      [] t = "permission_denied"  -> {"permission"}
      [] t = "unauthenticated"    -> {"auth"}
      [] t = "UNAUTHENTICATED"    -> {}
      [] t = "resource_exhausted" -> {}
      [] t = "NOT_FOUND"          -> {}
      [] t = "not_found"          -> {}
      [] t = "[AUTH_ERROR]"       -> {"[AUTH_ERROR]", "AUTH_ERROR"}
      [] t = "<permission denied>" -> {"<permission denied>", "<permission>"}
      [] t = "[auth_error]"       -> {"auth"}
      [] t = "Empty image response" -> {}
      [] t = "empty image response" -> {}
      [] OTHER                    -> {t}

\* msg.includes(needle)
Includes(msg, needle) == \E t \in msg : needle \in Needles(t)

\* msg.toLowerCase().includes(needle)
LowerIncludes(msg, needle) == \E t \in msg : needle \in Needles(ToLowerCase(t))

\* messages the SDK call can fail with
E_KeyInvalid  == {"API key", "API_KEY_INVALID"}
E_Permission  == {"403", "PERMISSION_DENIED"}
E_Safety      == {"SAFETY"}
E_Blocked     == {"blocked"}
E_Quota       == {"429", "RESOURCE_EXHAUSTED", "quota"}
E_Overloaded  == {"503", "overloaded"}
E_NotFound    == {"404", "not found"}
E_Network     == {"fetch failed"}
\* thrown by generateImage itself when the response carries no image
E_EmptyImage  == {"Empty image response"}
\* the API's answer to a key that has expired
E_KeyExpired  == {"expired", "API key"}
\* thrown by getClient
E_NoKey       == {"[AUTH_ERROR]", "API Key"}
\* the generic error of the final throw
E_AllFailed   == {"all image models failed"}

RemoteErrors == {E_KeyInvalid, E_Permission, E_Safety, E_Blocked, E_Quota,
                 E_Overloaded, E_NotFound, E_Network}

(***************************************************************************)
(* The store.  Absent values (null) are << >>, present ones <<value>>,     *)
(* except apiKey, which records what getClient can tell apart.             *)
(***************************************************************************)

\* the thumbnail of a fresh store and of resetThumbnail(); analysisReport
\* stands for analysisReport and seoTip, which are written together
InitialThumbnail ==
    [originalImage    |-> << >>,
     generatedImage   |-> << >>,
     status           |-> "idle",
     analysisReport   |-> << >>,
     generationPrompt |-> << >>,
     error            |-> << >>]

\* defaults of create<StoreState>(...)
InitialStore ==
    [isAuthenticated |-> FALSE,
     userName        |-> "null",
     apiKey          |-> "none",
     sessionToken    |-> "null",
     items           |-> << >>,
     usedCaptions    |-> << >>,
     referenceImage  |-> << >>,
     isReferenceSkipped |-> FALSE,
     thumbnail       |-> InitialThumbnail,
     isThumbnailSkipped |-> FALSE,
     sessionStorage  |-> {},
     localStorage    |-> {}]

\* no batch handler is running
BatchIdle ==
    /\ nextId = 0
    /\ isBatchProcessing = FALSE
    /\ bpc = "idle"
    /\ batchKind = "none"
    /\ targets = << >>
    /\ idx = 0
    /\ svcPending = "none"
    /\ svcLog = << >>
    /\ batches = 0

\* no single-item handler is running, the repair panel is closed; nobody
\* is logging in, restoreSession has run, no thumbnail is being made
WorkIdle ==
    /\ ops = {}
    /\ opCount = 0
    /\ activeEditItem = << >>
    /\ isRepairing = FALSE
    /\ apc = "idle"
    /\ rpc = "done"
    /\ tprocs = {}
    /\ tCount = 0
    /\ lastSession = << >>

\* no image is being normalized
OptimizeIdle ==
    /\ base64Str = [loads |-> FALSE, width |-> 0, height |-> 0]
    /\ maxDimension = 1024
    /\ opc = "idle"
    /\ optimized = << >>

\* nothing is staged, no reference is being stitched
ReferenceIdle ==
    /\ stagedRefImages = << >>
    /\ isStitching = FALSE
    /\ cpc = "idle"
    /\ images = << >>
    /\ canvas = << >>
    /\ finalImage = << >>

(***************************************************************************)
(* generateImage                                                           *)
(***************************************************************************)

\* variant: the two models listed in the opposite order
modelsToTry_Reversed ==
    <<"gemini-2.5-flash-image", "gemini-3-pro-image-preview">>

modelsToTry == <<"gemini-3-pro-image-preview", "gemini-2.5-flash-image">>

retryDelays == <<5000, 10000, 20000, 40000, 60000>>

Event(ev, mi, ms, err) ==
    [ev |-> ev, model |-> modelsToTry[mi], ms |-> ms, err |-> err]

\* getClient(): the key checks made before the SDK client is built
getClient == store.apiKey = "valid"

\* variant: the "key" test is missing from the first branch
IsCriticalError_NoKey(msg) ==
    \/ LowerIncludes(msg, "auth")
    \/ LowerIncludes(msg, "permission")
    \/ LowerIncludes(msg, "safety")
    \/ LowerIncludes(msg, "blocked")

\* variant: the "permission" test is missing from the first branch
IsCriticalError_NoPermission(msg) ==
    \/ LowerIncludes(msg, "auth")
    \/ LowerIncludes(msg, "key")
    \/ LowerIncludes(msg, "safety")
    \/ LowerIncludes(msg, "blocked")

\* the first branch of the catch block: errors that are thrown at once
IsCriticalError(msg) ==
    \/ LowerIncludes(msg, "auth")
    \/ LowerIncludes(msg, "key")
    \/ LowerIncludes(msg, "permission")
    \/ LowerIncludes(msg, "safety")
    \/ LowerIncludes(msg, "blocked")

\* the second branch of the catch block: errors retried on the same model
IsRetryableError(msg) ==
    \/ LowerIncludes(msg, "503")
    \/ LowerIncludes(msg, "overloaded")
    \/ LowerIncludes(msg, "quota")
    \/ LowerIncludes(msg, "internal")
    \/ LowerIncludes(msg, "429")

\* variant: every countdown message reports the first delay
StatusUpdate_FirstDelay(cb, lg, mi, a) ==
    IF cb
       THEN Append(lg, IF a = 0
                          THEN Event("status-start", mi, 0, {})
                          ELSE Event("status-retry", mi, retryDelays[1], {}))
       ELSE lg

\* top of the try block: the status callback, when one was passed, is called
\* with the start message or with the countdown of retryDelays[attempt - 1]
StatusUpdate(cb, lg, mi, a) ==
    IF cb
       THEN Append(lg, IF a = 0
                          THEN Event("status-start", mi, 0, {})
                          ELSE Event("status-retry", mi, retryDelays[a], {}))
       ELSE lg

\* one pass of the try block up to its first await, for model mi and attempt
\* a, with n calls in flight: the status callback, then either the timer of
\* the backoff is started (a > 0) or generateContent is called
BeginAttempt(cb, lg, mi, a, n) ==
    /\ modelIdx' = mi
    /\ attempt' = a
    /\ IF a > 0
          THEN /\ gpc' = "wait"
               /\ log' = StatusUpdate(cb, lg, mi, a)
               /\ inFlight' = n
          ELSE /\ gpc' = "awaiting"
               /\ log' = Append(StatusUpdate(cb, lg, mi, a), Event("call", mi, 0, {}))
               /\ inFlight' = n + 1

\* generateImage is entered: getClient() runs before the loops, then the
\* first attempt on the first model begins
Invoke ==
    /\ gpc = "idle"
    /\ \E cb \in BOOLEAN :
          /\ onStatusUpdate' = cb
          /\ IF getClient
                THEN /\ BeginAttempt(cb, log, 1, 0, inFlight)
                     /\ thrown' = thrown
                ELSE /\ gpc' = "raised"
                     /\ thrown' = <<E_NoKey>>
                     /\ UNCHANGED <<modelIdx, attempt, log, inFlight>>
    /\ UNCHANGED <<store, bvars, xvars, wvars, lastError>>

\* variant: every retry waits the first delay of the schedule
Wait_FirstDelay ==
    /\ gpc = "wait"
    /\ log' = Append(Append(log, Event("wait", modelIdx, retryDelays[1], {})),
                     Event("call", modelIdx, 0, {}))
    /\ inFlight' = inFlight + 1
    /\ gpc' = "awaiting"
    /\ UNCHANGED <<store, bvars, xvars, wvars, modelIdx, attempt, lastError, onStatusUpdate,
                   thrown>>

\* `await setTimeout(retryDelays[attempt - 1])` is over: generateContent is
\* called
Wait ==
    /\ gpc = "wait"
    /\ log' = Append(Append(log, Event("wait", modelIdx, retryDelays[attempt], {})),
                     Event("call", modelIdx, 0, {}))
    /\ inFlight' = inFlight + 1
    /\ gpc' = "awaiting"
    /\ UNCHANGED <<store, bvars, xvars, wvars, modelIdx, attempt, lastError, onStatusUpdate,
                   thrown>>

\* the response carries an image part: generateImage returns it
RespondImage ==
    /\ gpc = "awaiting"
    /\ inFlight' = inFlight - 1
    /\ log' = Append(log, Event("image", modelIdx, 0, {}))
    /\ gpc' = "returned"
    /\ UNCHANGED <<store, bvars, xvars, wvars, modelIdx, attempt, lastError, onStatusUpdate,
                   thrown>>

\* end of the body of the for-of loop over modelsToTry: the next model
\* begins with attempt 0, or the final throw is reached
NextModel(err, lg, n) ==
    IF modelIdx < Len(modelsToTry)
       THEN /\ BeginAttempt(onStatusUpdate, lg, modelIdx + 1, 0, n)
            /\ thrown' = thrown
       ELSE /\ gpc' = "raised"
            /\ thrown' = IF err # << >> THEN err ELSE <<E_AllFailed>>
            /\ log' = lg
            /\ inFlight' = n
            /\ UNCHANGED <<modelIdx, attempt>>

\* variant: every error that is not critical is retried on the same model
Catch_RetryAll(e, lg, n) ==
    /\ lastError' = <<e>>
    /\ IF IsCriticalError(e)
          THEN /\ gpc' = "raised"
               /\ thrown' = <<e>>
               /\ log' = lg
               /\ inFlight' = n
               /\ UNCHANGED <<modelIdx, attempt>>
          ELSE IF attempt + 1 <= Len(retryDelays)
                  THEN /\ BeginAttempt(onStatusUpdate, lg, modelIdx, attempt + 1, n)
                       /\ UNCHANGED thrown
                  ELSE NextModel(<<e>>, lg, n)

\* variant: lastError keeps the first error instead of the latest
Catch_KeepFirstError(e, lg, n) ==
    /\ lastError' = IF lastError = << >> THEN <<e>> ELSE lastError
    /\ IF IsCriticalError(e)
          THEN /\ gpc' = "raised"
               /\ thrown' = <<e>>
               /\ log' = lg
               /\ inFlight' = n
               /\ UNCHANGED <<modelIdx, attempt>>
          ELSE IF IsRetryableError(e) /\ attempt + 1 <= Len(retryDelays)
                  THEN /\ BeginAttempt(onStatusUpdate, lg, modelIdx, attempt + 1, n)
                       /\ UNCHANGED thrown
                  ELSE NextModel(IF lastError = << >> THEN <<e>> ELSE lastError,
                                 lg, n)

\* variant: the retry loop has no upper limit, the last delay is reused
Catch_NoRetryLimit(e, lg, n) ==
    /\ lastError' = <<e>>
    /\ IF IsCriticalError(e)
          THEN /\ gpc' = "raised"
               /\ thrown' = <<e>>
               /\ log' = lg
               /\ inFlight' = n
               /\ UNCHANGED <<modelIdx, attempt>>
          ELSE IF IsRetryableError(e)
                  THEN /\ BeginAttempt(onStatusUpdate, lg, modelIdx,
                                       IF attempt < Len(retryDelays)
                                          THEN attempt + 1 ELSE attempt, n)
                       /\ UNCHANGED thrown
                  ELSE NextModel(<<e>>, lg, n)

\* the catch block for error e, and what the loops do next: rethrow,
\* `continue` into the next attempt, or `break` to the next model
Catch(e, lg, n) ==
    /\ lastError' = <<e>>
    /\ IF IsCriticalError(e)
          THEN /\ gpc' = "raised"
               /\ thrown' = <<e>>
               /\ log' = lg
               /\ inFlight' = n
               /\ UNCHANGED <<modelIdx, attempt>>
          ELSE IF IsRetryableError(e) /\ attempt + 1 <= Len(retryDelays)
                  THEN /\ BeginAttempt(onStatusUpdate, lg, modelIdx, attempt + 1, n)
                       /\ UNCHANGED thrown
                  ELSE NextModel(<<e>>, lg, n)

\* the awaited call rejects with an error of the SDK
RespondError ==
    /\ gpc = "awaiting"
    /\ \E e \in RemoteErrors :
          Catch(e, Append(log, Event("fail", modelIdx, 0, e)), inFlight - 1)
    /\ UNCHANGED <<store, bvars, xvars, wvars, onStatusUpdate>>

\* the call resolves without an image part: `throw new Error("Empty image
\* response")` inside the try block, caught by the same catch block
RespondEmpty ==
    /\ gpc = "awaiting"
    /\ Catch(E_EmptyImage, Append(log, Event("fail", modelIdx, 0, E_EmptyImage)),
             inFlight - 1)
    /\ UNCHANGED <<store, bvars, xvars, wvars, onStatusUpdate>>

\* no invocation of a retry wrapper is running
GenerateIdle ==
    /\ gpc = "idle"
    /\ modelIdx = 1
    /\ attempt = 0
    /\ lastError = << >>
    /\ onStatusUpdate = FALSE
    /\ log = << >>
    /\ inFlight = 0
    /\ thrown = << >>

InitGen ==
    /\ \E k \in {"valid", "none", "badformat"} :
          store = [InitialStore EXCEPT !.apiKey = k]
    /\ BatchIdle
    /\ ReferenceIdle
    /\ OptimizeIdle
    /\ GenerateIdle
    /\ WorkIdle

NextGen ==
    \/ Invoke
    \/ Wait
    \/ RespondImage
    \/ RespondError
    \/ RespondEmpty

SpecGen == InitGen /\ [][NextGen]_vars

(***************************************************************************)
(* handleGeminiError: the user-facing messages.  The Korean texts are      *)
(* written by the fragments that later string tests look for.              *)
(***************************************************************************)

U_KeyExpired       == {"<key expired>", "API Key"}
U_PermissionDenied == {"<permission denied>", "API Key"}
U_QuotaExceeded    == {"<quota exceeded>"}
U_ServerOverloaded == {"<server overloaded>"}
U_ModelUnsupported == {"<model unsupported>", "API Key"}
U_SafetyBlocked    == {"<safety blocked>"}

\* the final `throw new Error("... " + msg.substring(0, 100))`
U_Fallback(msg)    == {"<error occurred>"} \cup msg

handleGeminiError(msg) ==
    IF Includes(msg, "expired")
       THEN U_KeyExpired
    ELSE IF \/ Includes(msg, "403")
            \/ Includes(msg, "API key")
            \/ Includes(msg, "API_KEY_INVALID")
            \/ Includes(msg, "PERMISSION_DENIED")
       THEN U_PermissionDenied
    ELSE IF \/ Includes(msg, "429")
            \/ Includes(msg, "RESOURCE_EXHAUSTED")
            \/ Includes(msg, "quota")
       THEN U_QuotaExceeded
    ELSE IF \/ Includes(msg, "503")
            \/ Includes(msg, "Overloaded")
            \/ Includes(msg, "Internal")
       THEN U_ServerOverloaded
    ELSE IF Includes(msg, "404") \/ Includes(msg, "not found")
       THEN U_ModelUnsupported
    ELSE IF Includes(msg, "SAFETY") \/ Includes(msg, "blocked")
       THEN U_SafetyBlocked
    ELSE U_Fallback(msg)

(***************************************************************************)
(* The two classifications of one error message: the first call of         *)
(* generateImage rejects with any message built from the fragments the     *)
(* string tests of handleGeminiError and of the catch block look for.      *)
(***************************************************************************)

\* most fragments in one message
MaxFragments == 2

Fragments ==
    {"expired", "403", "API key", "API_KEY_INVALID", "PERMISSION_DENIED",
     "UNAUTHENTICATED", "429", "RESOURCE_EXHAUSTED", "quota", "503",
     "Overloaded", "overloaded", "Internal", "404", "not found", "SAFETY",
     "blocked", "fetch failed"}

RECURSIVE MessagesOf(_)
MessagesOf(n) ==
    IF n = 0 THEN {{}}
    ELSE LET shorter == MessagesOf(n - 1)
         IN  shorter \cup {m \cup {f} : m \in shorter, f \in Fragments}

ErrorMessages == MessagesOf(MaxFragments) \ {{}}

\* the first generateContent call of the invocation rejects
RespondAnyError ==
    /\ gpc = "awaiting"
    /\ modelIdx = 1
    /\ attempt = 0
    /\ \E e \in ErrorMessages :
          Catch(e, Append(log, Event("fail", modelIdx, 0, e)), inFlight - 1)
    /\ UNCHANGED <<store, bvars, xvars, wvars, onStatusUpdate>>

NextClassify ==
    \/ Invoke
    \/ RespondAnyError
    \/ Wait
    \/ RespondImage

SpecClassify == InitGen /\ [][NextClassify]_vars

(***************************************************************************)
(* withRetry, around the operation of analyzeAndGenerateCopywriting:       *)
(* getClient(), then one generateContent call.  The Korean search strings  *)
(* of its catch block are written "<key expired>" and "<permission>".      *)
(***************************************************************************)

retries == 3
delayMs == 2000

\* what the text call can fail with
TextErrors == RemoteErrors \cup {E_KeyExpired}

RetryEvent(ev, ms, err) ==
    [ev |-> ev, model |-> "operation", ms |-> ms, err |-> err]

\* the errors the catch block of withRetry rethrows at once
IsFatalForRetry(msg) ==
    \/ Includes(msg, "AUTH_ERROR")
    \/ Includes(msg, "<key expired>")
    \/ Includes(msg, "<permission>")
    \/ Includes(msg, "SAFETY")

\* `await operation()`: the operation is invoked
CallOperation(lg) ==
    /\ log' = Append(lg, RetryEvent("call", 0, {}))
    /\ inFlight' = IF getClient THEN 1 ELSE 0
    /\ gpc' = "awaiting"

\* withRetry is entered: i = 0 and the operation is invoked
WithRetry ==
    /\ gpc = "idle"
    /\ attempt' = 0
    /\ CallOperation(log)
    /\ UNCHANGED <<store, bvars, xvars, wvars, modelIdx, lastError, onStatusUpdate,
                   thrown>>

\* the operation resolves: withRetry returns its value
OperationResolved ==
    /\ gpc = "awaiting"
    /\ getClient
    /\ log' = Append(log, RetryEvent("ok", 0, {}))
    /\ inFlight' = 0
    /\ gpc' = "returned"
    /\ UNCHANGED <<store, bvars, xvars, wvars, modelIdx, attempt, lastError,
                   onStatusUpdate, thrown>>

\* the operation rejects, in getClient or with an error of the API: the
\* catch block rethrows or starts the timer of delayMs * (i + 1)
OperationRejected ==
    /\ gpc = "awaiting"
    /\ \E e \in (IF getClient THEN TextErrors ELSE {E_NoKey}) :
          /\ lastError' = <<e>>
          /\ log' = Append(log, RetryEvent("fail", 0, e))
          /\ IF IsFatalForRetry(e)
                THEN gpc' = "raised" /\ thrown' = <<e>>
                ELSE gpc' = "wait" /\ thrown' = thrown
    /\ inFlight' = 0
    /\ UNCHANGED <<store, bvars, xvars, wvars, modelIdx, attempt, onStatusUpdate>>

\* the timer has fired: i++, then the next attempt or `throw lastError`
RetryDelayElapsed ==
    /\ gpc = "wait"
    /\ attempt' = attempt + 1
    /\ IF attempt + 1 < retries
          THEN /\ CallOperation(Append(log, RetryEvent("wait", delayMs * (attempt + 1), {})))
               /\ thrown' = thrown
          ELSE /\ log' = Append(log, RetryEvent("wait", delayMs * (attempt + 1), {}))
               /\ gpc' = "raised"
               /\ thrown' = lastError
               /\ inFlight' = inFlight
    /\ UNCHANGED <<store, bvars, xvars, wvars, modelIdx, lastError, onStatusUpdate>>

NextRetry ==
    \/ WithRetry
    \/ OperationResolved
    \/ OperationRejected
    \/ RetryDelayElapsed

SpecRetry == InitGen /\ [][NextRetry]_vars

(***************************************************************************)
(* Store operations, as functions from store to store.                     *)
(***************************************************************************)

\* the keys logout() removes from sessionStorage and from localStorage
SessionKeys == {"gemini_session_token", "gemini_user_name"}
LocalKeys   == {"gemini_api_key_v6", "gemini_user_name_v6",
                "gemini_access_code_v6", "gemini_api_key_v5"}

setReferenceImage(s, img) ==
    [s EXCEPT !.referenceImage = <<img>>, !.isReferenceSkipped = FALSE]

skipReference(s) ==
    [s EXCEPT !.isReferenceSkipped = TRUE, !.referenceImage = << >>]

\* { ...item, ...updates }
Merge(item, updates) ==
    [f \in DOMAIN item |-> IF f \in DOMAIN updates THEN updates[f] ELSE item[f]]

\* a data URL, as far as handleAddImages looks at it: its length and
\* whether it contains "data:,"
DataUrl(length, dataComma) == [length |-> length, dataComma |-> dataComma]

\* the data URL of a readable image file
ValidImage == DataUrl(101, FALSE)

addItem(s, id, originalImage) ==
    [s EXCEPT !.items = Append(@, [id                 |-> id,
                                   originalImage      |-> originalImage,
                                   generatedImage     |-> << >>,
                                   status             |-> "idle",
                                   error              |-> << >>,
                                   copywritingOptions |-> << >>,
                                   selectedOption     |-> << >>])]

updateItem(s, id, updates) ==
    [s EXCEPT !.items =
        [i \in 1..Len(@) |-> IF @[i].id = id THEN Merge(@[i], updates) ELSE @[i]]]

updateMultipleItems(s, ids, updates) ==
    [s EXCEPT !.items =
        [i \in 1..Len(@) |-> IF @[i].id \in ids THEN Merge(@[i], updates) ELSE @[i]]]

setItemOptions(s, id, options) ==
    [s EXCEPT !.items =
        [i \in 1..Len(@) |-> IF @[i].id = id
                                THEN [@[i] EXCEPT !.copywritingOptions = options]
                                ELSE @[i]]]

setItemSelectedOption(s, id, option) ==
    [s EXCEPT !.items =
        [i \in 1..Len(@) |-> IF @[i].id = id
                                THEN [@[i] EXCEPT !.selectedOption = <<option>>]
                                ELSE @[i]]]

\* variant: the new captions replace the list
addUsedCaptions_Replaces(s, newCaptions) ==
    [s EXCEPT !.usedCaptions = newCaptions]

addUsedCaptions(s, newCaptions) ==
    [s EXCEPT !.usedCaptions = @ \o newCaptions]

\* variant: the API key is left in the store
logout_KeepsApiKey(s) ==
    [s EXCEPT !.isAuthenticated = FALSE,
              !.userName        = "null",
              !.sessionToken    = "null",
              !.items           = << >>,
              !.usedCaptions    = << >>,
              !.referenceImage  = << >>,
              !.isReferenceSkipped = FALSE,
              !.thumbnail       = InitialThumbnail,
              !.isThumbnailSkipped = FALSE,
              !.sessionStorage  = @ \ SessionKeys,
              !.localStorage    = @ \ LocalKeys]

logout(s) ==
    [s EXCEPT !.isAuthenticated = FALSE,
              !.userName        = "null",
              !.apiKey          = "none",
              !.sessionToken    = "null",
              !.items           = << >>,
              !.usedCaptions    = << >>,
              !.referenceImage  = << >>,
              !.isReferenceSkipped = FALSE,
              !.thumbnail       = InitialThumbnail,
              !.isThumbnailSkipped = FALSE,
              !.sessionStorage  = @ \ SessionKeys,
              !.localStorage    = @ \ LocalKeys]

\* the answers the awaited checkSession() can come back with: without a
\* user name or session token it returns true before any request; otherwise
\* the backend answers success or mismatch, or the request fails/times out
SessionAnswers(s) ==
    IF s.userName = "null" \/ s.sessionToken = "null"
       THEN {"skipped"}
       ELSE {"success", "mismatch", "failed"}

\* checkSession: the store after the answer
checkSession(s, answer) == IF answer = "mismatch" THEN logout(s) ELSE s

(***************************************************************************)
(* Workspace: the batch handlers                                           *)
(***************************************************************************)

\* most items ever added
MaxItems == 2
\* most batch runs started
MaxBatches == 2

\* the loop `for (let i = 0; i < 8; i++)` of analyzeAndGenerateCopywriting
NumOptions == 8
\* texts the model answers with, and the options the user clicks
AnalysisAnswers == {"r1", "r2"}
ClickedOptions  == {NumOptions}
\* what a failing service operation of a batch fails with
BatchErrors == {E_KeyInvalid, E_Quota, E_EmptyImage}

\* aggregatedOptions built from one answer of the model
copywriting(answer) ==
    [i \in 1..NumOptions |-> [index |-> i, text |-> <<answer, i>>]]

OptionTexts(options) == [i \in 1..Len(options) |-> options[i].text]

handleServiceError(s, msg, itemId) ==
    IF Includes(msg, "[AUTH_ERROR]")
       THEN logout(s)
       ELSE updateItem(s, itemId, [status |-> "error", error |-> <<msg>>])

\* an entry of svcLog; a "start" of an analysis also records the captions
\* list passed to it (used), an "ok" of an analysis the option texts it
\* produced (texts)
SvcEvent(ev, id, err, msg) ==
    [ev |-> ev, id |-> id, err |-> err, msg |-> msg, used |-> << >>, texts |-> << >>]

Reverse(seq) == [i \in 1..Len(seq) |-> seq[Len(seq) + 1 - i]]

\* variant: the targets are walked from the end of the list
AnalyzeTargets_Reversed(s) ==
    Reverse(SelectSeq(s.items, LAMBDA i : i.status = "idle" \/ i.status = "error"))

\* items.filter(...) of the two handlers
AnalyzeTargets(s) ==
    SelectSeq(s.items, LAMBDA i : i.status = "idle" \/ i.status = "error")

\* variant: every item that has no image yet is a target
GenerateTargets_AnyUnfinished(s) ==
    SelectSeq(s.items, LAMBDA i : i.status \in {"idle", "selecting"})

GenerateTargets(s) ==
    SelectSeq(s.items, LAMBDA i : i.status = "selecting" /\ i.selectedOption # << >>)

Ids(seq) == {seq[i].id : i \in 1..Len(seq)}

\* the user adds one valid image (handleAddImages -> addItem)
AddItem ==
    /\ store.isAuthenticated
    /\ store.referenceImage # << >> \/ store.isReferenceSkipped
    /\ nextId < MaxItems
    /\ nextId' = nextId + 1
    /\ store' = addItem(store, nextId + 1, ValidImage)
    /\ UNCHANGED <<isBatchProcessing, bpc, batchKind, targets, idx,
                   svcPending, svcLog, batches, gvars, xvars, wvars>>

\* the user clicks one of the options shown for an item
SelectOption ==
    /\ \E i \in 1..Len(store.items), k \in ClickedOptions :
          /\ store.items[i].status \in {"selecting", "processing", "complete"}
          /\ k <= Len(store.items[i].copywritingOptions)
          /\ store.items[i].selectedOption # <<store.items[i].copywritingOptions[k]>>
          /\ store' = setItemSelectedOption(store, store.items[i].id,
                                            store.items[i].copywritingOptions[k])
    /\ UNCHANGED <<bvars, gvars, xvars, wvars>>

\* handleBatchAnalyze up to `await checkSession()`
HandleBatchAnalyze ==
    /\ bpc = "idle"
    /\ ~isBatchProcessing
    /\ batches < MaxBatches
    /\ AnalyzeTargets(store) # << >>
    /\ targets' = AnalyzeTargets(store)
    /\ isBatchProcessing' = TRUE
    /\ store' = updateMultipleItems(store, Ids(AnalyzeTargets(store)),
                                    [status |-> "analyzing", error |-> << >>])
    /\ batchKind' = "analyze"
    /\ bpc' = "batchCheck"
    /\ idx' = 0
    /\ svcLog' = << >>
    /\ batches' = batches + 1
    /\ UNCHANGED <<nextId, svcPending, gvars, xvars, wvars>>

\* handleBatchGenerate up to `await checkSession()`
HandleBatchGenerate ==
    /\ bpc = "idle"
    /\ ~isBatchProcessing
    /\ batches < MaxBatches
    /\ GenerateTargets(store) # << >>
    /\ targets' = GenerateTargets(store)
    /\ isBatchProcessing' = TRUE
    /\ store' = updateMultipleItems(store, Ids(GenerateTargets(store)),
                                    [status |-> "processing", error |-> << >>])
    /\ batchKind' = "generate"
    /\ bpc' = "batchCheck"
    /\ idx' = 0
    /\ svcLog' = << >>
    /\ batches' = batches + 1
    /\ UNCHANGED <<nextId, svcPending, gvars, xvars, wvars>>

\* the service operation for targets[i] is called in store s: getClient()
\* decides whether a request goes out
BeginService(s, i, logSoFar) ==
    /\ idx' = i
    /\ svcPending' = IF s.apiKey = "valid" THEN "net" ELSE "nokey"
    /\ svcLog' = Append(logSoFar,
                        [SvcEvent("start", targets[i].id, {}, {})
                            EXCEPT !.used = IF batchKind = "analyze"
                                               THEN s.usedCaptions ELSE << >>])

\* variant: the loop is left as soon as one target has failed
AnalyzeLoop_AbortOnFailure(s, logSoFar) ==
    /\ store' = s
    /\ IF /\ idx < Len(targets)
          /\ ~(logSoFar # << >> /\ logSoFar[Len(logSoFar)].ev = "fail")
          THEN /\ BeginService(s, idx + 1, logSoFar)
               /\ bpc' = "awaitAnalyze"
               /\ UNCHANGED isBatchProcessing
          ELSE /\ isBatchProcessing' = FALSE
               /\ bpc' = "idle"
               /\ svcPending' = "none"
               /\ svcLog' = logSoFar
               /\ UNCHANGED idx

\* handleBatchAnalyze: the loop goes on in store s after target idx, or the
\* handler ends
AnalyzeLoop(s, logSoFar) ==
    /\ store' = s
    /\ IF idx < Len(targets)
          THEN /\ BeginService(s, idx + 1, logSoFar)
               /\ bpc' = "awaitAnalyze"
               /\ UNCHANGED isBatchProcessing
          ELSE /\ isBatchProcessing' = FALSE
               /\ bpc' = "idle"
               /\ svcPending' = "none"
               /\ svcLog' = logSoFar
               /\ UNCHANGED idx

\* handleBatchAnalyze: checkSession() has answered
AnalyzeSessionChecked ==
    /\ bpc = "batchCheck"
    /\ batchKind = "analyze"
    /\ \E a \in SessionAnswers(store) :
          IF a = "mismatch"
             THEN /\ store' = checkSession(store, a)
                  /\ isBatchProcessing' = FALSE
                  /\ bpc' = "idle"
                  /\ UNCHANGED <<idx, svcPending, svcLog>>
             ELSE AnalyzeLoop(checkSession(store, a), svcLog)
    /\ UNCHANGED <<nextId, batchKind, targets, batches, gvars, xvars, wvars>>

\* analyzeImageForCopywriting resolved for targets[idx]
AnalyzeResolved ==
    /\ bpc = "awaitAnalyze"
    /\ svcPending = "net"
    /\ \E a \in AnalysisAnswers :
          LET id      == targets[idx].id
              options == copywriting(a)
              s1      == addUsedCaptions(store, OptionTexts(options))
              s2      == setItemOptions(s1, id, options)
              s3      == updateItem(s2, id, [status |-> "selecting"])
          IN  AnalyzeLoop(s3, Append(svcLog,
                                     [SvcEvent("ok", id, {}, {})
                                         EXCEPT !.texts = OptionTexts(options)]))
    /\ UNCHANGED <<nextId, batchKind, targets, batches, gvars, xvars, wvars>>

\* what the awaited service operation rejects with
Rejections ==
    IF svcPending = "nokey" THEN {E_NoKey} ELSE BatchErrors

\* analyzeImageForCopywriting rejected for targets[idx]
AnalyzeRejected ==
    /\ bpc = "awaitAnalyze"
    /\ \E e \in Rejections :
          LET id  == targets[idx].id
              msg == handleGeminiError(e)
          IN  AnalyzeLoop(handleServiceError(store, msg, id),
                          Append(svcLog, SvcEvent("fail", id, e, msg)))
    /\ UNCHANGED <<nextId, batchKind, targets, batches, gvars, xvars, wvars>>

\* variant: the handler ends without setIsBatchProcessing(false)
GenerateLoop_KeepsFlag(s, logSoFar) ==
    /\ svcLog' = logSoFar
    /\ svcPending' = "none"
    /\ IF idx < Len(targets)
          THEN /\ store' = updateItem(s, targets[idx + 1].id,
                                      [status |-> "processing", error |-> << >>])
               /\ idx' = idx + 1
               /\ bpc' = "itemCheck"
               /\ UNCHANGED isBatchProcessing
          ELSE /\ store' = s
               /\ isBatchProcessing' = TRUE
               /\ bpc' = "idle"
               /\ UNCHANGED idx

\* handleBatchGenerate: the loop goes on in store s after target idx with
\* generateSingleItem up to its `await checkSession()`, or the handler ends
GenerateLoop(s, logSoFar) ==
    /\ svcLog' = logSoFar
    /\ svcPending' = "none"
    /\ IF idx < Len(targets)
          THEN /\ store' = updateItem(s, targets[idx + 1].id,
                                      [status |-> "processing", error |-> << >>])
               /\ idx' = idx + 1
               /\ bpc' = "itemCheck"
               /\ UNCHANGED isBatchProcessing
          ELSE /\ store' = s
               /\ isBatchProcessing' = FALSE
               /\ bpc' = "idle"
               /\ UNCHANGED idx

\* handleBatchGenerate: checkSession() has answered
GenerateSessionChecked ==
    /\ bpc = "batchCheck"
    /\ batchKind = "generate"
    /\ \E a \in SessionAnswers(store) :
          IF a = "mismatch"
             THEN /\ store' = checkSession(store, a)
                  /\ isBatchProcessing' = FALSE
                  /\ bpc' = "idle"
                  /\ UNCHANGED <<idx, svcPending, svcLog>>
             ELSE GenerateLoop(checkSession(store, a), svcLog)
    /\ UNCHANGED <<nextId, batchKind, targets, batches, gvars, xvars, wvars>>

\* generateSingleItem: checkSession() has answered; on a mismatch the item
\* is left and the loop goes on, otherwise applyCopywritingToImage is called
ItemSessionChecked ==
    /\ bpc = "itemCheck"
    /\ \E a \in SessionAnswers(store) :
          IF a = "mismatch" \/ targets[idx].selectedOption = << >>
             THEN GenerateLoop(checkSession(store, a), svcLog)
             ELSE /\ store' = checkSession(store, a)
                  /\ BeginService(store, idx, svcLog)
                  /\ bpc' = "awaitGenerate"
                  /\ UNCHANGED isBatchProcessing
    /\ UNCHANGED <<nextId, batchKind, targets, batches, gvars, xvars, wvars>>

\* applyCopywritingToImage resolved: the item is complete, logUsage() is
\* awaited
GenerateResolved ==
    /\ bpc = "awaitGenerate"
    /\ svcPending = "net"
    /\ store' = updateItem(store, targets[idx].id,
                           [status |-> "complete", generatedImage |-> <<"image">>])
    /\ svcLog' = Append(svcLog, SvcEvent("ok", targets[idx].id, {}, {}))
    /\ svcPending' = "none"
    /\ bpc' = "logUsage"
    /\ UNCHANGED <<nextId, isBatchProcessing, batchKind, targets, idx,
                   batches, gvars, xvars, wvars>>

\* logUsage() has settled (it never rejects)
UsageLogged ==
    /\ bpc = "logUsage"
    /\ GenerateLoop(store, svcLog)
    /\ UNCHANGED <<nextId, batchKind, targets, batches, gvars, xvars, wvars>>

\* applyCopywritingToImage rejected for targets[idx]
GenerateRejected ==
    /\ bpc = "awaitGenerate"
    /\ \E e \in Rejections :
          LET id  == targets[idx].id
              msg == handleGeminiError(e)
          IN  GenerateLoop(handleServiceError(store, msg, id),
                           Append(svcLog, SvcEvent("fail", id, e, msg)))
    /\ UNCHANGED <<nextId, batchKind, targets, batches, gvars, xvars, wvars>>

\* a logged-in user on the workspace, past the reference step, nothing
\* added yet
InitBatch ==
    /\ store = [InitialStore EXCEPT !.isAuthenticated = TRUE,
                                    !.userName = "user",
                                    !.apiKey = "valid",
                                    !.sessionToken = "token",
                                    !.isReferenceSkipped = TRUE,
                                    !.sessionStorage = SessionKeys,
                                    !.localStorage =
                                        {"gemini_api_key_v6",
                                         "gemini_user_name_v6",
                                         "gemini_access_code_v6"}]
    /\ BatchIdle
    /\ ReferenceIdle
    /\ OptimizeIdle
    /\ GenerateIdle
    /\ WorkIdle

NextBatch ==
    \/ AddItem
    \/ SelectOption
    \/ HandleBatchAnalyze
    \/ AnalyzeSessionChecked
    \/ AnalyzeResolved
    \/ AnalyzeRejected
    \/ HandleBatchGenerate
    \/ GenerateSessionChecked
    \/ ItemSessionChecked
    \/ GenerateResolved
    \/ UsageLogged
    \/ GenerateRejected

SpecBatch == InitBatch /\ [][NextBatch]_vars


(***************************************************************************)
(* Workspace: the single-item handlers (analyzeSingleItem,                 *)
(* generateSingleItem called from the regenerate button, handleFaceSwap,   *)
(* executeMagicRepair) and the buttons of an item card.  Each handler      *)
(* that is suspended at an await is one record of `ops`:                   *)
(*   n     number of the handler, in the order they were started           *)
(*   kind  "analyze" | "generate" | "faceSwap" | "repair"                  *)
(*   item  the `item` the handler was called with (the rendered item)      *)
(*   used  the `usedCaptions` of the render the handler was created in     *)
(*   pc    "check" (await checkSession), "call" (await of the service      *)
(*         operation), "log" (await logUsage)                              *)
(*   key   at "call": "net" when getClient found a key and a request went  *)
(*         out, "nokey" when it threw                                      *)
(***************************************************************************)

\* most single-item handlers started
MaxOps == 2
\* items on the workspace when the single-item handlers are exercised
WorkItems == 1
\* the texts the user saves from the option editor
EditedTexts == {<<"edited", 0>>}

removeItem(s, id) ==
    [s EXCEPT !.items = SelectSeq(@, LAMBDA i : i.id # id)]

clearAllItems(s) == [s EXCEPT !.items = << >>]

\* newOptions[index] = { ...newOptions[index], text: newText } when the
\* option exists; the selection follows when it has the same index
updateItemOptionText(s, id, index, newText) ==
    [s EXCEPT !.items =
        [i \in 1..Len(@) |->
            IF @[i].id # id THEN @[i]
            ELSE LET newOptions ==
                         [k \in 1..Len(@[i].copywritingOptions) |->
                             IF k = index
                                THEN [@[i].copywritingOptions[k] EXCEPT !.text = newText]
                                ELSE @[i].copywritingOptions[k]]
                     newSelected ==
                         IF /\ @[i].selectedOption # << >>
                            /\ index \in 1..Len(newOptions)
                            /\ @[i].selectedOption[1].index = newOptions[index].index
                            THEN <<newOptions[index]>>
                            ELSE @[i].selectedOption
                 IN  [@[i] EXCEPT !.copywritingOptions = newOptions,
                                  !.selectedOption = newSelected]]]

Op(n, kind, item, used, pc, key) ==
    [n |-> n, kind |-> kind, item |-> item, used |-> used, pc |-> pc, key |-> key]

\* getClient() at the call of a service operation in store s
KeyCheck(s) == IF s.apiKey = "valid" THEN "net" ELSE "nokey"

\* the `finally { setIsRepairing(false) }` of executeMagicRepair
RepairSettled(op) ==
    isRepairing' = IF op.kind = "repair" THEN FALSE ELSE isRepairing

\* the regenerate, face swap and magic repair buttons: the item is complete
\* with an image and the repair panel is not open on it
HasResultButtons(item) ==
    /\ item.status = "complete"
    /\ item.generatedImage # << >>
    /\ activeEditItem # <<item.id>>

\* the "analyze again" button and the retry link of an item card
AnalyzeSingleItem ==
    /\ opCount < MaxOps
    /\ \E i \in 1..Len(store.items) :
          /\ store.items[i].status \in {"selecting", "error"}
          /\ store' = updateItem(store, store.items[i].id,
                                 [status |-> "analyzing", error |-> << >>])
          /\ ops' = ops \cup {Op(opCount + 1, "analyze", store.items[i],
                                 store.usedCaptions, "check", "none")}
    /\ opCount' = opCount + 1
    /\ UNCHANGED <<activeEditItem, isRepairing, gvars, bvars, xvars, svars>>

\* the regenerate button: generateSingleItem(item, true)
GenerateSingleItem ==
    /\ opCount < MaxOps
    /\ \E i \in 1..Len(store.items) :
          /\ HasResultButtons(store.items[i])
          /\ store' = updateItem(store, store.items[i].id,
                                 [status |-> "processing", error |-> << >>])
          /\ ops' = ops \cup {Op(opCount + 1, "generate", store.items[i],
                                 << >>, "check", "none")}
    /\ opCount' = opCount + 1
    /\ UNCHANGED <<activeEditItem, isRepairing, gvars, bvars, xvars, svars>>

\* the face swap button
HandleFaceSwap ==
    /\ opCount < MaxOps
    /\ \E i \in 1..Len(store.items) :
          /\ HasResultButtons(store.items[i])
          /\ store' = updateItem(store, store.items[i].id,
                                 [status |-> "processing", error |-> << >>])
          /\ ops' = ops \cup {Op(opCount + 1, "faceSwap", store.items[i],
                                 << >>, "check", "none")}
    /\ opCount' = opCount + 1
    /\ UNCHANGED <<activeEditItem, isRepairing, gvars, bvars, xvars, svars>>

\* the magic repair button
ActivateMagicRepair ==
    /\ \E i \in 1..Len(store.items) :
          /\ HasResultButtons(store.items[i])
          /\ activeEditItem' = <<store.items[i].id>>
    /\ UNCHANGED <<store, ops, opCount, isRepairing, gvars, bvars, xvars, svars>>

\* the close button of the repair popover
CancelMagicRepair ==
    /\ activeEditItem # << >>
    /\ \E i \in 1..Len(store.items) :
          /\ store.items[i].id = activeEditItem[1]
          /\ store.items[i].status = "complete"
          /\ store.items[i].generatedImage # << >>
    /\ activeEditItem' = << >>
    /\ UNCHANGED <<store, ops, opCount, isRepairing, gvars, bvars, xvars, svars>>

\* executeMagicRepair up to `await editImagePartially(...)`, with a box
\* drawn and a prompt typed; it is started by the button, disabled while
\* isRepairing, or by the Enter key of the prompt input, which is not
ExecuteMagicRepair ==
    /\ opCount < MaxOps
    /\ activeEditItem # << >>
    /\ \E i \in 1..Len(store.items), via \in {"button", "enter"} :
          /\ store.items[i].id = activeEditItem[1]
          /\ store.items[i].status = "complete"
          /\ store.items[i].generatedImage # << >>
          /\ via = "button" => ~isRepairing
          /\ ops' = ops \cup {Op(opCount + 1, "repair", store.items[i],
                                 << >>, "call", KeyCheck(store))}
    /\ isRepairing' = TRUE
    /\ opCount' = opCount + 1
    /\ UNCHANGED <<store, activeEditItem, gvars, bvars, xvars, svars>>

\* a single-item handler: checkSession() has answered.  On a mismatch the
\* handler returns; generateSingleItem and handleFaceSwap also return when
\* their item has no selected option / no generated image
OpSessionChecked ==
    /\ \E op \in ops, a \in SessionAnswers(store) :
          /\ op.pc = "check"
          /\ store' = checkSession(store, a)
          /\ IF \/ a = "mismatch"
                \/ op.kind = "generate" /\ op.item.selectedOption = << >>
                \/ op.kind = "faceSwap" /\ op.item.generatedImage = << >>
                THEN ops' = ops \ {op}
                ELSE ops' = (ops \ {op}) \cup
                            {[op EXCEPT !.pc = "call",
                                        !.key = KeyCheck(checkSession(store, a))]}
    /\ UNCHANGED <<opCount, activeEditItem, isRepairing, gvars, bvars, xvars, svars>>

\* the service operation of a single-item handler resolved
OpResolved ==
    /\ \E op \in ops :
          /\ op.pc = "call"
          /\ op.key = "net"
          /\ CASE op.kind = "analyze" ->
                    \E a \in AnalysisAnswers :
                       LET options == copywriting(a)
                           s1 == addUsedCaptions(store, OptionTexts(options))
                           s2 == setItemOptions(s1, op.item.id, options)
                       IN  /\ store' = updateItem(s2, op.item.id,
                                                  [status |-> "selecting"])
                           /\ ops' = ops \ {op}
                           /\ UNCHANGED activeEditItem
               [] op.kind \in {"generate", "faceSwap"} ->
                    /\ store' = updateItem(store, op.item.id,
                                           [status |-> "complete",
                                            generatedImage |-> <<"image">>])
                    /\ ops' = (ops \ {op}) \cup {[op EXCEPT !.pc = "log"]}
                    /\ UNCHANGED activeEditItem
               [] op.kind = "repair" ->
                    /\ store' = updateItem(store, op.item.id,
                                           [generatedImage |-> <<"image">>])
                    /\ ops' = (ops \ {op}) \cup {[op EXCEPT !.pc = "log"]}
                    /\ activeEditItem' = << >>
    /\ UNCHANGED <<opCount, isRepairing, gvars, bvars, xvars, svars>>

\* logUsage() of a single-item handler has settled (it never rejects)
OpUsageLogged ==
    /\ \E op \in ops :
          /\ op.pc = "log"
          /\ ops' = ops \ {op}
          /\ RepairSettled(op)
    /\ UNCHANGED <<store, opCount, activeEditItem, gvars, bvars, xvars, svars>>

\* what the service operation of a single-item handler rejects with
OpRejections(op) == IF op.key = "nokey" THEN {E_NoKey} ELSE BatchErrors

\* the service operation of a single-item handler rejected
OpRejected ==
    /\ \E op \in ops :
          /\ op.pc = "call"
          /\ \E e \in OpRejections(op) :
                store' = handleServiceError(store, handleGeminiError(e), op.item.id)
          /\ ops' = ops \ {op}
          /\ RepairSettled(op)
    /\ UNCHANGED <<opCount, activeEditItem, gvars, bvars, xvars, svars>>

\* the delete button of an item card
RemoveItem ==
    /\ \E i \in 1..Len(store.items) :
          store' = removeItem(store, store.items[i].id)
    /\ UNCHANGED <<wvars, gvars, bvars, xvars>>

\* the "reset all" button of the workspace
ClearAllItems ==
    /\ store.items # << >>
    /\ store' = clearAllItems(store)
    /\ UNCHANGED <<wvars, gvars, bvars, xvars>>

\* the save button of the option editor, shown with the option list
UpdateItemOptionText ==
    /\ \E i \in 1..Len(store.items), k \in ClickedOptions, t \in EditedTexts :
          /\ store.items[i].status \in {"selecting", "processing", "complete"}
          /\ k <= Len(store.items[i].copywritingOptions)
          /\ store.items[i].copywritingOptions[k].text # t
          /\ store' = updateItemOptionText(store, store.items[i].id, k, t)
    /\ UNCHANGED <<wvars, gvars, bvars, xvars>>

\* the store after a successful login: state and browser storage
LoggedInStore ==
    [InitialStore EXCEPT !.isAuthenticated = TRUE,
                         !.userName = "user",
                         !.apiKey = "valid",
                         !.sessionToken = "token",
                         !.sessionStorage = SessionKeys,
                         !.localStorage = {"gemini_api_key_v6",
                                           "gemini_user_name_v6",
                                           "gemini_access_code_v6"}]

\* the store with items 1..n added
RECURSIVE WithItems(_, _)
WithItems(s, n) ==
    IF n = 0 THEN s ELSE addItem(WithItems(s, n - 1), n, ValidImage)

\* a logged-in user on the workspace with WorkItems images added
InitWork ==
    /\ store = WithItems(skipReference(LoggedInStore), WorkItems)
    /\ BatchIdle
    /\ ReferenceIdle
    /\ OptimizeIdle
    /\ GenerateIdle
    /\ WorkIdle

NextWork ==
    \/ SelectOption
    \/ HandleBatchAnalyze
    \/ AnalyzeSessionChecked
    \/ AnalyzeResolved
    \/ AnalyzeRejected
    \/ HandleBatchGenerate
    \/ GenerateSessionChecked
    \/ ItemSessionChecked
    \/ GenerateResolved
    \/ UsageLogged
    \/ GenerateRejected
    \/ AnalyzeSingleItem
    \/ GenerateSingleItem
    \/ HandleFaceSwap
    \/ ActivateMagicRepair
    \/ CancelMagicRepair
    \/ ExecuteMagicRepair
    \/ OpSessionChecked
    \/ OpResolved
    \/ OpUsageLogged
    \/ OpRejected
    \/ RemoveItem
    \/ ClearAllItems
    \/ UpdateItemOptionText

SpecWork == InitWork /\ [][NextWork]_vars

(***************************************************************************)
(* Workspace: batch analysis of a list of BatchSize images.                *)
(***************************************************************************)

\* images on the workspace when the batch analysis starts
BatchSize == 3

InitCaptions ==
    /\ store = WithItems(skipReference(LoggedInStore), BatchSize)
    /\ BatchIdle
    /\ ReferenceIdle
    /\ OptimizeIdle
    /\ GenerateIdle
    /\ WorkIdle

NextCaptions ==
    \/ HandleBatchAnalyze
    \/ AnalyzeSessionChecked
    \/ AnalyzeResolved
    \/ AnalyzeRejected

SpecCaptions == InitCaptions /\ [][NextCaptions]_vars

(***************************************************************************)
(* Workspace: batch runs over a list of RunItems images, every awaited     *)
(* call settling.                                                          *)
(***************************************************************************)

\* images on the workspace when the batches are run
RunItems == 2

InitRuns ==
    /\ store = WithItems(skipReference(LoggedInStore), RunItems)
    /\ BatchIdle
    /\ ReferenceIdle
    /\ OptimizeIdle
    /\ GenerateIdle
    /\ WorkIdle

\* the steps of a running batch that wait for a session check, a service
\* operation or logUsage to settle
BatchSettles ==
    \/ AnalyzeSessionChecked
    \/ AnalyzeResolved
    \/ AnalyzeRejected
    \/ GenerateSessionChecked
    \/ ItemSessionChecked
    \/ GenerateResolved
    \/ UsageLogged
    \/ GenerateRejected

NextRuns ==
    \/ SelectOption
    \/ HandleBatchAnalyze
    \/ HandleBatchGenerate
    \/ BatchSettles

\* every awaited session check, service operation and logUsage call of a
\* batch settles.  checkSession aborts its request after 5 s; the service
\* operations and logUsage have no timeout of their own, so for them this
\* is an assumption on the remote ends
SpecRunsFair == InitRuns /\ [][NextRuns]_vars /\ WF_vars(BatchSettles)

(***************************************************************************)
(* Workspace: the reference step.  A staged image is the record of what    *)
(* the code can observe of its data URL: whether it passes the filter of   *)
(* stitchImages, whether it loads, and its size when it does.              *)
(***************************************************************************)

\* most images staged at once
MaxStaged == 3

TARGET_WIDTH == 1000
MAX_HEIGHT   == 20000

\* a data URL of exactly 100 characters: staged by handleAddImages
\* (length >= 100), dropped by stitchImages (length > 100)
Filtered == [src |-> "short", load |-> "loads", width |-> 1, height |-> 1]
\* img.onerror fires
Broken   == [src |-> "ok", load |-> "fails", width |-> 0, height |-> 0]
\* neither img.onload nor img.onerror fires within the 15 s
Slow     == [src |-> "ok", load |-> "hangs", width |-> 0, height |-> 0]

Loaded(w, h) == [src |-> "ok", load |-> "loads", width |-> w, height |-> h]

\* width x height of the images that load
Sizes == {<<19, 19>>, <<3, 2>>, <<3, 50>>, <<7, 50>>, <<3000, 1>>}

StagedKinds == {Filtered, Broken, Slow} \cup {Loaded(s[1], s[2]) : s \in Sizes}

\* variant: no source is filtered out
ValidSrcs_NoFilter(imgs) == imgs

\* images.filter(src => src && src.length > 100 && !src.includes('data:,'))
ValidSrcs(imgs) == SelectSeq(imgs, LAMBDA i : i.src = "ok")

\* results.filter(img => img !== null)
ValidElements(srcs) == SelectSeq(srcs, LAMBDA i : i.load = "loads")

\* h * (TARGET_WIDTH / w) is evaluated in double precision: for the sizes
\* listed here the quotient is rounded down and the product falls just
\* below the integer h * TARGET_WIDTH / w (19 * (1000 / 19) < 1000)
FloatShortfall(w, h) == IF <<w, h>> \in {<<19, 19>>} THEN 1 ELSE 0

\* variant: the drawn height is rounded up
DrawnHeight_Ceil(img) ==
    (img.height * TARGET_WIDTH + img.width - 1) \div img.width

\* Math.floor(img.height * (TARGET_WIDTH / img.width))
DrawnHeight(img) ==
    (img.height * TARGET_WIDTH) \div img.width
        - FloatShortfall(img.width, img.height)

ItemsToDraw(valid) ==
    [i \in 1..Len(valid) |-> [img |-> valid[i], h |-> DrawnHeight(valid[i])]]

\* totalHeight after the map over validElements
RECURSIVE TotalHeight(_)
TotalHeight(items) ==
    IF items = << >> THEN 0 ELSE Head(items).h + TotalHeight(Tail(items))

\* variant: the images are drawn unscaled when the cap applies
DrawH_Unscaled(h, total) == h

\* Math.floor(item.h * finalScale), finalScale = MAX_HEIGHT / totalHeight
\* when totalHeight > MAX_HEIGHT and 1 otherwise
DrawH(h, total) ==
    IF total > MAX_HEIGHT THEN (h * MAX_HEIGHT) \div total ELSE h

\* the loop over itemsToDraw: each drawImage(img, 0, y, TARGET_WIDTH, drawH)
RECURSIVE Draw(_, _, _)
Draw(items, total, y) ==
    IF items = << >> THEN << >>
    ELSE <<[img |-> Head(items).img, y |-> y, h |-> DrawH(Head(items).h, total)]>>
         \o Draw(Tail(items), total, y + DrawH(Head(items).h, total))

\* variant: the canvas height is not capped
CanvasHeight_Uncapped(total) == total

\* canvas.height = totalHeight, after the cap
CanvasHeight(total) == IF total > MAX_HEIGHT THEN MAX_HEIGHT ELSE total

\* the canvas after the try block, with a 2d context (ctx) or without
Canvas(valid, ctx) ==
    LET items == ItemsToDraw(valid)
        total == TotalHeight(items)
    IN  [width  |-> TARGET_WIDTH,
         height |-> CanvasHeight(total),
         ctx    |-> ctx,
         draws  |-> IF ctx THEN Draw(items, total, 0) ELSE << >>]

\* canvas.toDataURL('image/jpeg', 0.6); "" when the try block threw
toDataURL(c) ==
    IF ~c.ctx THEN ""
    ELSE IF c.height = 0 THEN "data:," ELSE "data:image/jpeg"

\* variant: only the empty string counts as an empty composite
IsEmptyComposite_OnlyEmptyString(f) == f = ""

\* !finalImage || finalImage.length < 100 || finalImage.includes('data:,')
IsEmptyComposite(f) == f = "" \/ f = "data:,"

\* handleAddImages on the reference step: one valid image is staged
StageImage ==
    /\ store.referenceImage = << >>
    /\ ~store.isReferenceSkipped
    /\ Len(stagedRefImages) < MaxStaged
    /\ \E img \in StagedKinds : stagedRefImages' = Append(stagedRefImages, img)
    /\ UNCHANGED <<store, gvars, bvars, wvars, ovars, isStitching, cpc, images,
                   canvas, finalImage>>

\* the skip button, shown while nothing is staged
SkipReference ==
    /\ store.referenceImage = << >>
    /\ ~store.isReferenceSkipped
    /\ stagedRefImages = << >>
    /\ store' = skipReference(store)
    /\ UNCHANGED <<gvars, bvars, wvars, ovars, rvars>>

\* handleConfirmReference up to `await stitchImages(stagedRefImages)`, and
\* stitchImages up to its first return or to `await Promise.race(...)`
HandleConfirmReference ==
    /\ cpc = "idle"
    /\ ~isStitching
    /\ store.referenceImage = << >>
    /\ ~store.isReferenceSkipped
    /\ stagedRefImages # << >>
    /\ isStitching' = TRUE
    /\ images' = stagedRefImages
    /\ canvas' = << >>
    /\ IF ValidSrcs(stagedRefImages) = << >>
          THEN cpc' = "stitched" /\ finalImage' = <<"">>
          ELSE cpc' = "loading" /\ finalImage' = << >>
    /\ UNCHANGED <<store, gvars, bvars, wvars, ovars, stagedRefImages>>

\* Promise.all(loadPromises) wins the race: every onload/onerror has fired
LoadsSettled ==
    /\ cpc = "loading"
    /\ \A i \in 1..Len(ValidSrcs(images)) : ValidSrcs(images)[i].load # "hangs"
    /\ LET valid == ValidElements(ValidSrcs(images))
       IN  IF valid = << >>
              THEN finalImage' = <<"">> /\ canvas' = canvas
              ELSE \E ctx \in BOOLEAN :
                      /\ canvas' = <<Canvas(valid, ctx)>>
                      /\ finalImage' = <<toDataURL(Canvas(valid, ctx))>>
    /\ cpc' = "stitched"
    /\ UNCHANGED <<store, gvars, bvars, wvars, ovars, stagedRefImages, isStitching,
                   images>>

\* the 15 s timer wins the race: the catch block returns ""
LoadTimeout ==
    /\ cpc = "loading"
    /\ finalImage' = <<"">>
    /\ cpc' = "stitched"
    /\ UNCHANGED <<store, gvars, bvars, wvars, ovars, stagedRefImages, isStitching,
                   images, canvas>>

\* handleConfirmReference after the await, with its finally block
ConfirmResumed ==
    /\ cpc = "stitched"
    /\ store' = IF IsEmptyComposite(finalImage[1])
                   THEN skipReference(store)
                   ELSE setReferenceImage(store, finalImage[1])
    /\ stagedRefImages' = << >>
    /\ isStitching' = FALSE
    /\ cpc' = "idle"
    /\ UNCHANGED <<gvars, bvars, wvars, ovars, images, canvas, finalImage>>

\* a logged-in user on the reference step, nothing staged
InitReference ==
    /\ store = [InitialStore EXCEPT !.isAuthenticated = TRUE,
                                    !.userName = "user",
                                    !.apiKey = "valid",
                                    !.sessionToken = "token",
                                    !.sessionStorage = SessionKeys]
    /\ BatchIdle
    /\ ReferenceIdle
    /\ OptimizeIdle
    /\ GenerateIdle
    /\ WorkIdle

NextReference ==
    \/ StageImage
    \/ SkipReference
    \/ HandleConfirmReference
    \/ LoadsSettled
    \/ LoadTimeout
    \/ ConfirmResumed

SpecReference == InitReference /\ [][NextReference]_vars

(***************************************************************************)
(* Workspace: handleAddImages, the one place images enter the program.     *)
(* Here a staged image is the data URL itself (DataUrl).                   *)
(***************************************************************************)

\* most images handed to handleAddImages at once
MaxNewImages == 2

\* lengths of the data URLs tried: "", "data:", "data:,", URLs around the
\* limit of 100 characters and longer ones
UrlLengths == {0, 5, 6, 99, 100, 101, 200, 5000}

\* "data:," is six characters long
DataUrls ==
    {DataUrl(l, c) : l \in UrlLengths, c \in BOOLEAN} \ {DataUrl(l, TRUE) : l \in 0..5}

\* variant: the length is not looked at
IsValidImage_AnyLength(img) ==
    /\ img.length # 0
    /\ ~img.dataComma

\* the filter of handleAddImages: !img, img.length < 100,
\* img.includes("data:,") || img === "data:"
IsValidImage(img) ==
    /\ img.length # 0
    /\ ~(img.length < 100)
    /\ ~(img.dataComma \/ (img.length = 5 /\ ~img.dataComma))

\* validImages.forEach(img => addItem(img)), ids from n + 1 on
RECURSIVE AddItems(_, _, _)
AddItems(s, imgs, n) ==
    IF imgs = << >> THEN s
    ELSE AddItems(addItem(s, n + 1, Head(imgs)), Tail(imgs), n + 1)

NewImages ==
    UNION {[1..n -> DataUrls] : n \in 0..MaxNewImages}

\* handleAddImages(newImages), from the file input, a drop or a paste
HandleAddImages ==
    /\ store.isAuthenticated
    /\ \E newImages \in NewImages :
          LET validImages == SelectSeq(newImages, IsValidImage)
          IN  /\ validImages # << >>
              /\ IF store.referenceImage = << >> /\ ~store.isReferenceSkipped
                    THEN /\ Len(stagedRefImages) + Len(validImages) <= MaxStaged
                         /\ stagedRefImages' = stagedRefImages \o validImages
                         /\ UNCHANGED <<store, nextId>>
                    ELSE /\ nextId + Len(validImages) <= MaxItems
                         /\ store' = AddItems(store, validImages, nextId)
                         /\ nextId' = nextId + Len(validImages)
                         /\ UNCHANGED stagedRefImages
    /\ UNCHANGED <<isBatchProcessing, bpc, batchKind, targets, idx, svcPending,
                   svcLog, batches, gvars, wvars, ovars, isStitching, cpc,
                   images, canvas, finalImage>>

\* a logged-in user on the reference step, nothing staged
InitIngest ==
    /\ store = LoggedInStore
    /\ BatchIdle
    /\ ReferenceIdle
    /\ OptimizeIdle
    /\ GenerateIdle
    /\ WorkIdle

NextIngest ==
    \/ HandleAddImages
    \/ SkipReference
    \/ RemoveItem

SpecIngest == InitIngest /\ [][NextIngest]_vars

(***************************************************************************)
(* Login, session restore and the thumbnail step: handleSubmit of the      *)
(* AuthModal with login, restoreSession, the logout button, checkSession   *)
(* as awaited by these, and processThumbnail of the ThumbnailMaker.  A     *)
(* suspended run of processThumbnail is one record of `tprocs`:            *)
(*   n     number of the run, which also names the image it was given      *)
(*   pc    "check" (await checkSession), "analyze" (await                  *)
(*         analyzeForThumbnail), "optimize" (await optimizeImageForAPI in  *)
(*         generateThumbnailImage), "generate" (await generateImage),      *)
(*         "log" (await logUsage)                                          *)
(*   sent  at "check": TRUE when checkSession sent its request             *)
(*   key   at "analyze"/"generate": "net" when getClient found a key       *)
(***************************************************************************)

\* most runs of processThumbnail started
MaxThumbnails == 2
setThumbnailImage(s, img) ==
    [s EXCEPT !.thumbnail = [@ EXCEPT !.originalImage = <<img>>,
                                      !.status = "idle",
                                      !.generatedImage = << >>,
                                      !.analysisReport = << >>],
              !.isThumbnailSkipped = FALSE]

updateThumbnail(s, updates) == [s EXCEPT !.thumbnail = Merge(@, updates)]

resetThumbnail(s) ==
    [s EXCEPT !.thumbnail = InitialThumbnail, !.isThumbnailSkipped = FALSE]

\* checkSession() sends a request when the store has a user name and a
\* session token
SessionRequestSent(s) == s.userName # "null" /\ s.sessionToken # "null"

\* how a checkSession() call can end: without a request it returns at
\* once; with one, the backend answers success or mismatch, or answers
\* with a non-OK status, or the fetch fails, or it is aborted after 5 s
SessionOutcomes(sent) ==
    IF sent THEN {"success", "mismatch", "notOk", "networkError", "timeout"}
            ELSE {"skipped"}

\* variant: the session counts as valid only on the answer success
SessionValid_OnlyOnSuccess(answer) == answer \in {"success", "skipped"}

\* the value checkSession() returns
SessionValid(answer) == answer # "mismatch"

\* what the last settled checkSession() call did: the answer it got, the
\* value it returned, and whether it left the store as it was
Settled(s, answer) ==
    <<[answer    |-> answer,
       result    |-> SessionValid(answer),
       unchanged |-> checkSession(s, answer) = s,
       loggedOut |-> ~checkSession(s, answer).isAuthenticated]>>

\* the catch block of processThumbnail
thumbnailError(s, msg) ==
    IF Includes(msg, "[AUTH_ERROR]")
       THEN logout(s)
       ELSE updateThumbnail(s, [status |-> "error", error |-> <<msg>>])

\* the logout button of the header
UserLogout ==
    /\ store.isAuthenticated
    /\ store' = logout(store)
    /\ UNCHANGED <<gvars, bvars, xvars, ops, opCount, activeEditItem,
                   isRepairing, svars>>

\* handleSubmit of the AuthModal, shown while not authenticated, up to
\* `await validateGeminiKey(trimmedKey)`.  The effect that calls
\* restoreSession() runs with the first render, before any user event
HandleSubmit ==
    /\ rpc # "start"
    /\ ~store.isAuthenticated
    /\ apc = "idle"
    /\ apc' = "validate"
    /\ UNCHANGED <<store, gvars, bvars, xvars, ops, opCount, activeEditItem,
                   isRepairing, rpc, tprocs, tCount, lastSession>>

\* handleSubmit: validateGeminiKey has answered.  A valid key is saved to
\* or removed from localStorage (saveKey), put in the store (setApiKey),
\* and login() runs up to its fetch
KeyValidated ==
    /\ apc = "validate"
    /\ \E isValid \in BOOLEAN, saveKey \in BOOLEAN :
          IF isValid
             THEN /\ store' = [store EXCEPT
                                  !.apiKey = "valid",
                                  !.localStorage =
                                      IF saveKey
                                         THEN @ \cup {"gemini_api_key_v6",
                                                      "gemini_user_name_v6",
                                                      "gemini_access_code_v6"}
                                         ELSE @ \ {"gemini_api_key_v6",
                                                   "gemini_user_name_v6",
                                                   "gemini_access_code_v6"}]
                  /\ apc' = "login"
             ELSE /\ apc' = "idle"
                  /\ UNCHANGED store
    /\ UNCHANGED <<gvars, bvars, xvars, ops, opCount, activeEditItem,
                   isRepairing, rpc, tprocs, tCount, lastSession>>

\* login(): the backend has answered, or the fetch failed
LoginAnswered ==
    /\ apc = "login"
    /\ \E result \in {"success", "refused", "failed"} :
          store' = IF result = "success"
                      THEN [store EXCEPT !.isAuthenticated = TRUE,
                                         !.userName = "user",
                                         !.sessionToken = "token",
                                         !.sessionStorage = @ \cup SessionKeys]
                      ELSE store
    /\ apc' = "idle"
    /\ UNCHANGED <<gvars, bvars, xvars, ops, opCount, activeEditItem,
                   isRepairing, rpc, tprocs, tCount, lastSession>>

\* restoreSession(), called when the App mounts, up to
\* `await get().checkSession()`
RestoreSession ==
    /\ rpc = "start"
    /\ IF /\ SessionKeys \subseteq store.sessionStorage
          /\ "gemini_api_key_v6" \in store.localStorage
          THEN /\ store' = [store EXCEPT !.isAuthenticated = TRUE,
                                         !.userName = "user",
                                         !.sessionToken = "token",
                                         !.apiKey = "valid"]
               /\ rpc' = "check"
          ELSE /\ rpc' = "done"
               /\ UNCHANGED store
    /\ UNCHANGED <<gvars, bvars, xvars, ops, opCount, activeEditItem,
                   isRepairing, apc, tprocs, tCount, lastSession>>

\* restoreSession: checkSession() has answered; `if (!isValid) logout()`
RestoreSessionChecked ==
    /\ rpc = "check"
    /\ \E a \in SessionOutcomes(TRUE) :
          /\ store' = IF SessionValid(a)
                         THEN checkSession(store, a)
                         ELSE logout(checkSession(store, a))
          /\ lastSession' = Settled(store, a)
    /\ rpc' = "done"
    /\ UNCHANGED <<gvars, bvars, xvars, ops, opCount, activeEditItem,
                   isRepairing, apc, tprocs, tCount>>

TProc(n, pc, sent, key) == [n |-> n, pc |-> pc, sent |-> sent, key |-> key]

\* an image is given to the thumbnail step: setThumbnailImage(result) and
\* processThumbnail(result) up to `await checkSession()`.  The file input
\* and the drop zone are shown while there is no original image; a paste
\* is taken unless the status is 'analyzing' or 'generating'
StartThumbnail ==
    /\ store.isAuthenticated
    /\ tCount < MaxThumbnails
    /\ \E via \in {"file", "paste"} :
          /\ via = "file" => store.thumbnail.originalImage = << >>
          /\ via = "paste" => store.thumbnail.status \notin {"analyzing", "generating"}
    /\ store' = setThumbnailImage(store, tCount + 1)
    /\ tprocs' = tprocs \cup {TProc(tCount + 1, "check",
                                     SessionRequestSent(store), "none")}
    /\ tCount' = tCount + 1
    /\ UNCHANGED <<gvars, bvars, xvars, ops, opCount, activeEditItem,
                   isRepairing, apc, rpc, lastSession>>

\* the reset button on the original image of the thumbnail step
ResetThumbnail ==
    /\ store.isAuthenticated
    /\ store.thumbnail.originalImage # << >>
    /\ store' = resetThumbnail(store)
    /\ UNCHANGED <<gvars, bvars, xvars, wvars>>

\* what analyzeForThumbnail rejects with: withRetry rethrows the error of
\* its operation as it is
ThumbAnalyzeErrors == {E_Network}
\* what generateImage rejects with, before handleGeminiError
ThumbGenerateErrors == {E_EmptyImage}

\* processThumbnail: checkSession() has answered.  `if (!isSessionValid)
\* return`, otherwise the status becomes 'analyzing' and
\* analyzeForThumbnail runs up to its request
ThumbSessionChecked ==
    /\ \E p \in tprocs : \E a \in SessionOutcomes(p.sent) :
          /\ p.pc = "check"
          /\ lastSession' = Settled(store, a)
          /\ IF SessionValid(a)
                THEN /\ store' = updateThumbnail(checkSession(store, a),
                                                 [status |-> "analyzing",
                                                  error |-> << >>])
                     /\ tprocs' = (tprocs \ {p}) \cup
                                   {TProc(p.n, "analyze", FALSE,
                                          KeyCheck(checkSession(store, a)))}
                ELSE /\ store' = checkSession(store, a)
                     /\ tprocs' = tprocs \ {p}
    /\ UNCHANGED <<gvars, bvars, xvars, ops, opCount, activeEditItem,
                   isRepairing, apc, rpc, tCount>>

\* analyzeForThumbnail resolved: the status becomes 'generating' and
\* generateThumbnailImage runs up to `await optimizeImageForAPI`
ThumbAnalyzed ==
    /\ \E p \in tprocs :
          /\ p.pc = "analyze"
          /\ p.key = "net"
          /\ store' = updateThumbnail(store, [status |-> "generating",
                                              analysisReport |-> <<"report">>,
                                              generationPrompt |-> <<"prompt">>])
          /\ tprocs' = (tprocs \ {p}) \cup {TProc(p.n, "optimize", FALSE, "none")}
    /\ UNCHANGED <<gvars, bvars, xvars, ops, opCount, activeEditItem,
                   isRepairing, apc, rpc, tCount, lastSession>>

\* analyzeForThumbnail rejected: the catch block of processThumbnail
ThumbAnalyzeRejected ==
    /\ \E p \in tprocs :
          /\ p.pc = "analyze"
          /\ \E e \in (IF p.key = "nokey" THEN {E_NoKey} ELSE ThumbAnalyzeErrors) :
                store' = thumbnailError(store, e)
          /\ tprocs' = tprocs \ {p}
    /\ UNCHANGED <<gvars, bvars, xvars, ops, opCount, activeEditItem,
                   isRepairing, apc, rpc, tCount, lastSession>>

\* generateThumbnailImage: the image is optimized, generateImage runs up to
\* its request (getClient reads the key now)
ThumbOptimized ==
    /\ \E p \in tprocs :
          /\ p.pc = "optimize"
          /\ tprocs' = (tprocs \ {p}) \cup
                        {TProc(p.n, "generate", FALSE, KeyCheck(store))}
    /\ UNCHANGED <<store, gvars, bvars, xvars, ops, opCount, activeEditItem,
                   isRepairing, apc, rpc, tCount, lastSession>>

\* generateThumbnailImage resolved: the status becomes 'complete', then
\* `await logUsage()`
ThumbGenerated ==
    /\ \E p \in tprocs :
          /\ p.pc = "generate"
          /\ p.key = "net"
          /\ store' = updateThumbnail(store, [status |-> "complete",
                                              generatedImage |-> <<"thumbnail">>])
          /\ tprocs' = (tprocs \ {p}) \cup {TProc(p.n, "log", FALSE, "none")}
    /\ UNCHANGED <<gvars, bvars, xvars, ops, opCount, activeEditItem,
                   isRepairing, apc, rpc, tCount, lastSession>>

\* generateThumbnailImage rejected with what handleGeminiError throws
ThumbGenerateRejected ==
    /\ \E p \in tprocs :
          /\ p.pc = "generate"
          /\ \E e \in (IF p.key = "nokey" THEN {E_NoKey} ELSE ThumbGenerateErrors) :
                store' = thumbnailError(store, handleGeminiError(e))
          /\ tprocs' = tprocs \ {p}
    /\ UNCHANGED <<gvars, bvars, xvars, ops, opCount, activeEditItem,
                   isRepairing, apc, rpc, tCount, lastSession>>

\* logUsage() of processThumbnail has settled
ThumbUsageLogged ==
    /\ \E p \in tprocs :
          /\ p.pc = "log"
          /\ tprocs' = tprocs \ {p}
    /\ UNCHANGED <<store, gvars, bvars, xvars, ops, opCount, activeEditItem,
                   isRepairing, apc, rpc, tCount, lastSession>>

\* the stores a page can load with: nothing saved, or the session and the
\* saved key of an earlier login
LoadedStores ==
    { InitialStore,
      [InitialStore EXCEPT !.sessionStorage = SessionKeys,
                           !.localStorage = {"gemini_api_key_v6",
                                             "gemini_user_name_v6",
                                             "gemini_access_code_v6"}] }

InitSession ==
    /\ store \in LoadedStores
    /\ BatchIdle
    /\ ReferenceIdle
    /\ OptimizeIdle
    /\ GenerateIdle
    /\ ops = {}
    /\ opCount = 0
    /\ activeEditItem = << >>
    /\ isRepairing = FALSE
    /\ apc = "idle"
    /\ rpc = "start"
    /\ tprocs = {}
    /\ tCount = 0
    /\ lastSession = << >>

NextSession ==
    \/ RestoreSession
    \/ RestoreSessionChecked
    \/ HandleSubmit
    \/ KeyValidated
    \/ LoginAnswered
    \/ UserLogout
    \/ StartThumbnail
    \/ ResetThumbnail
    \/ ThumbSessionChecked
    \/ ThumbAnalyzed
    \/ ThumbAnalyzeRejected
    \/ ThumbOptimized
    \/ ThumbGenerated
    \/ ThumbGenerateRejected
    \/ ThumbUsageLogged

SpecSession == InitSession /\ [][NextSession]_vars

(***************************************************************************)
(* optimizeImageForAPI.  The image is the record of whether it loads and   *)
(* of its size; the result is the size of the image resolved with.         *)
(***************************************************************************)

\* widths and heights of the images given to the normalizer
Dimensions == {1, 2, 100, 1024, 1025, 2048, 3000, 4096}

\* values of maxDimension; every caller passes 1024
MaxDimensions == {1, 100, 1024}

\* Math.round(n / d) for positive n and d
Round(n, d) == (2 * n + d) \div (2 * d)

\* variant: the shorter side is set to maxDimension
Resize_ShortSide(w, h, M) ==
    IF w > M \/ h > M
       THEN IF w < h
               THEN [width |-> M, height |-> Round(h * M, w)]
               ELSE [width |-> Round(w * M, h), height |-> M]
       ELSE [width |-> w, height |-> h]

\* width and height of the canvas for an image of w x h
Resize(w, h, M) ==
    IF w > M \/ h > M
       THEN IF w > h
               THEN [width |-> M, height |-> Round(h * M, w)]
               ELSE [width |-> Round(w * M, h), height |-> M]
       ELSE [width |-> w, height |-> h]

\* optimizeImageForAPI is called: img.src is set, the promise is pending
OptimizeImageForAPI ==
    /\ opc = "idle"
    /\ opc' = "loading"
    /\ UNCHANGED <<store, gvars, bvars, wvars, rvars, base64Str, maxDimension,
                   optimized>>

\* img.onload: the canvas is sized, and with a 2d context the image is
\* drawn and exported; without one the promise resolves with base64Str
ImageLoaded ==
    /\ opc = "loading"
    /\ base64Str.loads
    /\ \E ctx \in BOOLEAN :
          optimized' =
              IF ctx
                 THEN <<[from   |-> "canvas",
                         width  |-> Resize(base64Str.width, base64Str.height,
                                           maxDimension).width,
                         height |-> Resize(base64Str.width, base64Str.height,
                                           maxDimension).height]>>
                 ELSE <<[from   |-> "original",
                         width  |-> base64Str.width,
                         height |-> base64Str.height]>>
    /\ opc' = "resolved"
    /\ UNCHANGED <<store, gvars, bvars, wvars, rvars, base64Str, maxDimension>>

\* img.onerror: the promise resolves with cleanBase64(base64Str)
ImageFailed ==
    /\ opc = "loading"
    /\ ~base64Str.loads
    /\ optimized' = <<[from   |-> "original",
                       width  |-> base64Str.width,
                       height |-> base64Str.height]>>
    /\ opc' = "resolved"
    /\ UNCHANGED <<store, gvars, bvars, wvars, rvars, base64Str, maxDimension>>

InitOptimize ==
    /\ store = InitialStore
    /\ BatchIdle
    /\ ReferenceIdle
    /\ GenerateIdle
    /\ WorkIdle
    /\ \/ base64Str = [loads |-> FALSE, width |-> 0, height |-> 0]
       \/ \E w \in Dimensions, h \in Dimensions :
             base64Str = [loads |-> TRUE, width |-> w, height |-> h]
    /\ maxDimension \in MaxDimensions
    /\ opc = "idle"
    /\ optimized = << >>

NextOptimize ==
    \/ OptimizeImageForAPI
    \/ ImageLoaded
    \/ ImageFailed

SpecOptimize == InitOptimize /\ [][NextOptimize]_vars

(***************************************************************************)
(* Properties of generateImage, stated over the history `log`.             *)
(***************************************************************************)

\* the classes of failure the properties speak about
AuthorizationErrors == {E_KeyInvalid, E_Permission}
SafetyErrors        == {E_Safety, E_Blocked}
TransientErrors     == {E_Quota, E_Overloaded}
NotFoundErrors      == {E_NotFound}
UnknownErrors       == {E_Network, E_EmptyImage}

\* the documented schedule, in milliseconds
Schedule == <<5000, 10000, 20000, 40000, 60000>>
PrimaryModel   == "gemini-3-pro-image-preview"
SecondaryModel == "gemini-2.5-flash-image"

Done == gpc \in {"returned", "raised"}

IsCall(i)   == log[i].ev = "call"
IsFail(i)   == log[i].ev = "fail"
IsWait(i)   == log[i].ev = "wait"
IsStatus(i) == log[i].ev \in {"status-start", "status-retry"}

\* positions of the calls to model m made before position i
CallsBefore(m, i) == {j \in 1..(i - 1) : IsCall(j) /\ log[j].model = m}
CallsTo(m) == CallsBefore(m, Len(log) + 1)

\* position of the first call at or after position i, 0 when there is none
RECURSIVE FirstCallFrom(_)
FirstCallFrom(i) ==
    IF i > Len(log) THEN 0
    ELSE IF IsCall(i) THEN i
    ELSE FirstCallFrom(i + 1)

NextCallAfter(i) == FirstCallFrom(i + 1)

\* position of the first call to model m at or after position i, 0 when none
RECURSIVE FirstCallTo(_, _)
FirstCallTo(m, i) ==
    IF i > Len(log) THEN 0
    ELSE IF IsCall(i) /\ log[i].model = m THEN i
    ELSE FirstCallTo(m, i + 1)

WaitsBetween(i, j) == {k \in (i + 1)..(j - 1) : IsWait(k)}

RECURSIVE SumWaits(_)
SumWaits(s) ==
    IF s = << >> THEN 0
    ELSE (IF Head(s).ev = "wait" THEN Head(s).ms ELSE 0) + SumWaits(Tail(s))

\* the callback invocations, in order
StatusLog == SelectSeq(log, LAMBDA r : r.ev \in {"status-start", "status-retry"})

LastFail ==
    CHOOSE i \in DOMAIN log : IsFail(i) /\ \A j \in (i + 1)..Len(log) : ~IsFail(j)

C2_TransientRetriedSameModel ==
    \A i \in DOMAIN log :
        (IsFail(i) /\ log[i].err \in TransientErrors)
        => LET m == log[i].model
               k == Cardinality(CallsBefore(m, i))
               j == NextCallAfter(i)
           IN  (k - 1 < 5)
               => IF j = 0
                     THEN /\ ~Done
                          /\ modelsToTry[modelIdx] = m
                          /\ Cardinality(WaitsBetween(i, Len(log) + 1)) <= 1
                     ELSE /\ log[j].model = m
                          /\ Cardinality(WaitsBetween(i, j)) = 1
                          /\ \A w \in WaitsBetween(i, j) : log[w].ms = Schedule[k]

C2_Witness ==
    \E i \in DOMAIN log :
        /\ IsFail(i)
        /\ log[i].err = E_Quota
        /\ Cardinality(CallsBefore(SecondaryModel, i)) = 5
        /\ log[i].model = SecondaryModel
        /\ NextCallAfter(i) # 0

\* C3: after a model-not-found failure or an unclassified failure the model
\* is not called again; the next call, if there is one, is to the next model
\* of the list and no wait lies between the failure and that call.
C3_NotFoundOrUnknownSwitchesModel ==
    \A i \in DOMAIN log :
        (IsFail(i) /\ log[i].err \in NotFoundErrors \cup UnknownErrors)
        => /\ \A j \in (i + 1)..Len(log) : IsCall(j) => log[j].model # log[i].model
           /\ LET j == NextCallAfter(i)
              IN  j # 0 => /\ log[i].model = PrimaryModel
                           /\ log[j].model = SecondaryModel
                           /\ WaitsBetween(i, j) = {}
           /\ (log[i].model = SecondaryModel) => (i = Len(log) /\ gpc = "raised")

C3_Witness ==
    \E i \in DOMAIN log :
        /\ IsFail(i)
        /\ log[i].err \in NotFoundErrors
        /\ Cardinality(CallsBefore(PrimaryModel, i)) = 3
        /\ NextCallAfter(i) # 0
        /\ \E j \in DOMAIN log : IsFail(j) /\ log[j].err \in UnknownErrors

\* the primary model has been given up at position i: a not-found or
\* unclassified failure, or the failure of its 6th call
Abandons(i) ==
    /\ IsFail(i)
    /\ log[i].model = PrimaryModel
    /\ \/ log[i].err \in NotFoundErrors \cup UnknownErrors
       \/ /\ log[i].err \in TransientErrors
          /\ Cardinality(CallsBefore(PrimaryModel, i)) = 6

\* C4: the primary model is called first, every call to the secondary model
\* comes after the primary was given up and after all calls to the primary,
\* and an image ends the invocation: it is returned and nothing follows it.
C4_FixedOrderAndStopOnImage ==
    /\ LET c == FirstCallFrom(1)
       IN  c # 0 => log[c].model = PrimaryModel
    /\ LET f == FirstCallTo(SecondaryModel, 1)
       IN  f # 0 => /\ \E a \in 1..(f - 1) :
                          Abandons(a) /\ \A j \in (a + 1)..(f - 1) : ~IsCall(j)
                    /\ \A j \in (f + 1)..Len(log) :
                          IsCall(j) => log[j].model = SecondaryModel
    /\ \A i \in DOMAIN log :
          log[i].ev = "image" => (i = Len(log) /\ gpc = "returned" /\ inFlight = 0)
    /\ gpc = "returned" => (Len(log) > 0 /\ log[Len(log)].ev = "image")

C4_Witness ==
    /\ gpc = "returned"
    /\ log[Len(log)].model = SecondaryModel
    /\ Cardinality(CallsTo(PrimaryModel)) = 6
    /\ Cardinality(CallsTo(SecondaryModel)) = 2

\* C5: when the invocation raises after at least one call and no call
\* returned an image, the error raised is that of the last failed call.
C5_RaisesLastError ==
    (gpc = "raised" /\ \E i \in DOMAIN log : IsFail(i))
    => thrown = <<log[LastFail].err>>

C5_Witness ==
    /\ gpc = "raised"
    /\ CallsTo(SecondaryModel) # {}
    /\ \E i \in DOMAIN log : IsFail(i) /\ log[i].err = E_Quota
    /\ \E i \in DOMAIN log : IsFail(i) /\ log[i].err = E_NotFound
    /\ thrown = <<E_Network>>

\* C6: at every moment of an invocation the waits total at most 270 s, each
\* model has been called at most 6 times and at most one call is in flight;
\* an invocation that has not ended can always take its next step.
C6_BoundedWaitAndCalls ==
    /\ SumWaits(log) <= 270000
    /\ Cardinality(CallsTo(PrimaryModel)) <= 6
    /\ Cardinality(CallsTo(SecondaryModel)) <= 6
    /\ inFlight \in {0, 1}
    /\ Len(log) <= 48
    /\ (gpc \notin {"idle", "returned", "raised"}) => ENABLED NextGen

C6_Witness ==
    /\ Done
    /\ SumWaits(log) = 270000
    /\ Cardinality(CallsTo(PrimaryModel)) = 6
    /\ Cardinality(CallsTo(SecondaryModel)) = 6

\* the first k calls failed with a quota error and the next call returned
\* an image, all on the primary model
QuotaThenImage(k) ==
    /\ gpc = "returned"
    /\ Cardinality(CallsTo(PrimaryModel)) = k + 1
    /\ CallsTo(SecondaryModel) = {}
    /\ \A i \in DOMAIN log : IsFail(i) => log[i].err = E_Quota

\* C7 as stated: k quota failures then a success make exactly k callback
\* invocations.
C7_Original ==
    \A k \in 1..5 :
        (onStatusUpdate /\ QuotaThenImage(k)) => Len(StatusLog) = k

\* C7: with a callback passed, k quota failures (1 <= k <= 5) followed by a
\* success return the image after k+1 callback invocations: the start message
\* of the first attempt, then k countdown messages of which the i-th reports
\* the i-th delay of the schedule.
C7_CallbackStartPlusCountdowns ==
    \A k \in 1..5 :
        (onStatusUpdate /\ QuotaThenImage(k))
        => /\ log[Len(log)].ev = "image"
           /\ Len(StatusLog) = k + 1
           /\ StatusLog[1].ev = "status-start"
           /\ \A i \in 1..k : /\ StatusLog[i + 1].ev = "status-retry"
                              /\ StatusLog[i + 1].ms = Schedule[i]

C7_Witness == onStatusUpdate /\ QuotaThenImage(5)

\* the first call of the invocation failed with an authorization error
FirstCallAuthFailure ==
    \E i \in DOMAIN log :
        /\ IsFail(i)
        /\ log[i].err \in AuthorizationErrors
        /\ Cardinality(CallsBefore(PrimaryModel, i)) = 1
        /\ CallsBefore(SecondaryModel, i) = {}

\* C8 as stated: an authorization failure of the first call raises after no
\* wait and no callback invocation.
C8_Original ==
    FirstCallAuthFailure
    => (gpc = "raised" /\ SumWaits(log) = 0 /\ Len(StatusLog) = 0)

\* C8: an authorization failure of the first call raises that error after no
\* wait, no countdown message and, when a callback was passed, exactly one
\* callback invocation: the start message of the first attempt.
C8_AuthFailureNoWaitStartMessageOnly ==
    FirstCallAuthFailure
    => /\ gpc = "raised"
       /\ thrown = <<log[Len(log)].err>>
       /\ SumWaits(log) = 0
       /\ \A i \in DOMAIN log : log[i].ev # "status-retry"
       /\ Len(StatusLog) = IF onStatusUpdate THEN 1 ELSE 0
       /\ Cardinality(CallsTo(PrimaryModel)) = 1

C8_Witness ==
    /\ FirstCallAuthFailure
    /\ onStatusUpdate
    /\ log[Len(log)].err = E_Permission

(***************************************************************************)
(* Properties of the batch handlers, stated over `svcLog`.                 *)
(***************************************************************************)

\* the batch handler that ran last has returned
BatchEnded == bpc = "idle" /\ batchKind # "none" /\ ~isBatchProcessing

SvcStarts(id)  == {j \in 1..Len(svcLog) : svcLog[j].ev = "start" /\ svcLog[j].id = id}
SvcResults(id) == {j \in 1..Len(svcLog) : svcLog[j].ev \in {"ok", "fail"} /\ svcLog[j].id = id}
ItemsWithId(id) == {i \in 1..Len(store.items) : store.items[i].id = id}

\* the failure is none of the authorization failures
NonAuthorizationFailure(ev) ==
    ev.ev = "fail" /\ ev.err \notin AuthorizationErrors \cup {E_NoKey}

\* C9: when a batch has run to its end with the session still valid, the
\* service operation was invoked exactly once for every target; a target
\* whose operation failed with a non-authorization error is in status
\* 'error' with that error's text, and a target whose operation succeeded
\* is 'selecting' with its options (analysis) or 'complete' with a
\* generated image (generation).
C9_BatchIsolatesFailures ==
    (BatchEnded /\ store.isAuthenticated)
    => \A k \in 1..Len(targets) :
          LET id == targets[k].id IN
          /\ Cardinality(SvcStarts(id)) = 1
          /\ Cardinality(SvcResults(id)) = 1
          /\ Cardinality(ItemsWithId(id)) = 1
          /\ \A j \in SvcResults(id), i \in ItemsWithId(id) :
                LET item == store.items[i] IN
                /\ NonAuthorizationFailure(svcLog[j])
                   => /\ item.status = "error"
                      /\ item.error = <<svcLog[j].msg>>
                      /\ svcLog[j].msg # {}
                /\ (svcLog[j].ev = "ok" /\ batchKind = "analyze")
                   => /\ item.status = "selecting"
                      /\ Len(item.copywritingOptions) = NumOptions
                      /\ item.error = << >>
                /\ (svcLog[j].ev = "ok" /\ batchKind = "generate")
                   => /\ item.status = "complete"
                      /\ item.generatedImage # << >>
                      /\ item.error = << >>

C9_Witness ==
    /\ BatchEnded
    /\ store.isAuthenticated
    /\ batchKind = "generate"
    /\ Len(targets) = 2
    /\ Len(svcLog) = 4
    /\ svcLog[2].ev = "fail"
    /\ svcLog[2].err = E_Quota
    /\ svcLog[4].ev = "ok"

\* C10: within one batch the service operations start in items-list order
\* and one at a time: in svcLog every start but the first directly follows
\* the result of the operation started before it, at most one operation is
\* awaited, and the targets are started in the order of the items list.
C10_SequentialInListOrder ==
    /\ \A j \in 1..Len(svcLog) :
          IF j % 2 = 1
             THEN svcLog[j].ev = "start"
             ELSE svcLog[j].ev \in {"ok", "fail"} /\ svcLog[j].id = svcLog[j - 1].id
    /\ (svcPending # "none") <=> (Len(svcLog) % 2 = 1)
    /\ \A a, b \in 1..Len(svcLog) :
          (a < b /\ svcLog[a].ev = "start" /\ svcLog[b].ev = "start")
          => /\ svcLog[a].id # svcLog[b].id
             /\ \A x \in ItemsWithId(svcLog[a].id), y \in ItemsWithId(svcLog[b].id) : x < y
             /\ \E x, y \in 1..Len(targets) :
                   x < y /\ targets[x].id = svcLog[a].id /\ targets[y].id = svcLog[b].id

C10_Witness ==
    /\ batchKind = "analyze"
    /\ Len(svcLog) = 3
    /\ svcPending = "net"
    /\ svcLog[2].ev = "fail"
    /\ Cardinality(ItemsWithId(svcLog[1].id) \cup ItemsWithId(svcLog[3].id)) = 2

(***************************************************************************)
(* Authorization failures and session checks in the batch handlers.        *)
(***************************************************************************)

\* the failure is one the classifier handles in its "AUTH Errors" branches
\* (expired key, rejected key or permission denied), or the missing-key
\* error of getClient
IsAuthorizationFailure(e) ==
    \/ handleGeminiError(e) \in {U_KeyExpired, U_PermissionDenied}
    \/ e = E_NoKey

\* the client is logged out: state and browser storage are cleared
LoggedOut(s) ==
    /\ ~s.isAuthenticated
    /\ s.userName = "null"
    /\ s.apiKey = "none"
    /\ s.sessionToken = "null"
    /\ s.sessionStorage \cap SessionKeys = {}
    /\ s.localStorage \cap LocalKeys = {}

\* C11 as stated: once the operation of a work item has failed with an
\* authorization failure, the application is logged out.
C11_Original ==
    \A j \in 1..Len(svcLog) :
        (svcLog[j].ev = "fail" /\ IsAuthorizationFailure(svcLog[j].err))
        => LoggedOut(store)

\* C12 as stated: after the operation of a target has failed with an
\* authorization failure, no service operation is started in that batch.
C12_Original ==
    \A j, k \in 1..Len(svcLog) :
        (j < k /\ svcLog[j].ev = "fail" /\ IsAuthorizationFailure(svcLog[j].err))
        => svcLog[k].ev # "start"

\* a step in which an awaited checkSession() comes back from a 'mismatch'
\* answer of the backend
MismatchStep ==
    /\ bpc \in {"batchCheck", "itemCheck"}
    /\ "mismatch" \in SessionAnswers(store)
    /\ store.isAuthenticated
    /\ ~store'.isAuthenticated

C13_Original ==
    \A i \in DOMAIN log :
        (IsFail(i) /\ log[i].err \in AuthorizationErrors \cup {E_NoKey, E_KeyExpired})
        => /\ i = Len(log)
           /\ gpc = "raised"
           /\ thrown = <<log[i].err>>

(***************************************************************************)
(* Agreement of handleGeminiError with the catch block of generateImage.   *)
(***************************************************************************)

\* C14 as stated: a failure the classifier maps to quota/rate-limit or to
\* server overload is followed by a wait and a retry on the same model; a
\* failure the classifier maps to authorization or to a safety block is
\* raised at once, with no retry and no model switch.
C14_Original ==
    \A i \in DOMAIN log :
        IsFail(i)
        => LET u == handleGeminiError(log[i].err)
               j == NextCallAfter(i)
           IN  /\ u \in {U_QuotaExceeded, U_ServerOverloaded}
                  => IF j = 0
                        THEN gpc = "wait" /\ modelsToTry[modelIdx] = log[i].model
                        ELSE /\ log[j].model = log[i].model
                             /\ Cardinality(WaitsBetween(i, j)) = 1
               /\ u \in {U_KeyExpired, U_PermissionDenied, U_SafetyBlocked}
                  => /\ i = Len(log)
                     /\ gpc = "raised"
                     /\ thrown = <<log[i].err>>

(***************************************************************************)
(* Properties of the reference step.                                       *)
(***************************************************************************)

\* stitchImages has returned
Stitched == finalImage # << >>

\* the images of the argument that pass the filter and load
Loadable == SelectSeq(images, LAMBDA i : i.src = "ok" /\ i.load = "loads")

\* an image that passes the filter never finishes loading: the race can
\* only be won by the 15 s timer
MustTimeOut == \E i \in 1..Len(images) : images[i].src = "ok" /\ images[i].load = "hangs"

\* C16: stitchImages always returns a string; it returns "" when no input
\* passes the filter, when no input that passes the filter loads, and when
\* the load has to time out; and while it waits for the loads, the end of
\* the loads or the timer always lets it return.
C16_EmptyResultNeverThrows ==
    /\ Stitched => finalImage[1] \in {"", "data:,", "data:image/jpeg"}
    /\ (Stitched /\ Loadable = << >>) => finalImage = <<"">>
    /\ (Stitched /\ MustTimeOut) => finalImage = <<"">>
    /\ (cpc = "loading") => ENABLED (LoadsSettled \/ LoadTimeout)

\* the timer fired although one image would have loaded
C16_Witness ==
    /\ cpc = "stitched"
    /\ finalImage = <<"">>
    /\ Len(images) = 3
    /\ images[1] = Filtered
    /\ images[2] = Slow
    /\ images[3] \in {Loaded(s[1], s[2]) : s \in Sizes}

\* a common multiple of the widths in Sizes
RECURSIVE ProductOfWidths(_)
ProductOfWidths(ws) ==
    IF ws = {} THEN 1
    ELSE LET w == CHOOSE x \in ws : TRUE IN w * ProductOfWidths(ws \ {w})

CommonWidth == ProductOfWidths({s[1] : s \in Sizes})

\* sum over the images of floor(h * W / w)
RECURSIVE SumOfFloors(_)
SumOfFloors(imgs) ==
    IF imgs = << >> THEN 0
    ELSE (Head(imgs).height * TARGET_WIDTH) \div Head(imgs).width
         + SumOfFloors(Tail(imgs))

\* sum over the images of the fractional part of h * W / w, in units of
\* 1 / CommonWidth
RECURSIVE SumOfFractions(_)
SumOfFractions(imgs) ==
    IF imgs = << >> THEN 0
    ELSE ((Head(imgs).height * TARGET_WIDTH) % Head(imgs).width)
             * (CommonWidth \div Head(imgs).width)
         + SumOfFractions(Tail(imgs))

\* floor of the sum over the images of h * W / w
FloorOfScaledTotal(imgs) ==
    SumOfFloors(imgs) + (SumOfFractions(imgs) \div CommonWidth)

\* number of images for which h * W / w is an integer
Integral(imgs) ==
    Cardinality({i \in 1..Len(imgs) :
                    (imgs[i].height * TARGET_WIDTH) % imgs[i].width = 0})

Cap(h) == IF h > 20000 THEN 20000 ELSE h

\* C17 as stated: the canvas height is the floor of the scaled total height,
\* or 20000 when that exceeds 20000.
C17_Original ==
    canvas # << >> => canvas[1].height = Cap(FloorOfScaledTotal(Loadable))

\* C17: the canvas height is the sum of the per-image heights
\* floor(h_i * W / w_i) - each rounded down on its own, and one less for an
\* image whose h_i * W / w_i is an integer that the double-precision product
\* misses - when that sum does not exceed 20000, and exactly 20000 when it
\* does.
C17_CanvasHeightSumOfFloorsCapped ==
    canvas # << >>
    => /\ \E s \in (SumOfFloors(Loadable) - Integral(Loadable))..SumOfFloors(Loadable) :
              canvas[1].height = Cap(s)
       /\ canvas[1].height <= 20000
       /\ canvas[1].width = 1000
       /\ Integral(Loadable) = 0 => canvas[1].height = Cap(SumOfFloors(Loadable))

\* two images of 666.67 scaled height each: 1332, where the floor of the
\* total is 1333
C17_Witness ==
    /\ canvas # << >>
    /\ Loadable = <<Loaded(3, 2), Loaded(3, 2)>>
    /\ canvas[1].height = 1332

RECURSIVE SumDrawn(_)
SumDrawn(draws) ==
    IF draws = << >> THEN 0 ELSE Head(draws).h + SumDrawn(Tail(draws))

\* the images are drawn in input order, each where the previous one ended
DrawnInOrder(c) ==
    /\ Len(c.draws) = Len(Loadable)
    /\ \A i \in 1..Len(c.draws) :
          /\ c.draws[i].img = Loadable[i]
          /\ c.draws[i].y = IF i = 1 THEN 0 ELSE c.draws[i - 1].y + c.draws[i - 1].h

\* C18 as stated: drawn in input order without gaps, and when the cap
\* applies the drawn heights total exactly 20000.
C18_Original ==
    (canvas # << >> /\ canvas[1].ctx)
    => /\ DrawnInOrder(canvas[1])
       /\ SumDrawn(canvas[1].draws) = canvas[1].height

\* C18: the images are drawn in input order, each where the previous one
\* ended; without the cap they fill the canvas exactly; when the cap applies
\* each is scaled by the same factor 20000 / total and rounded down, so the
\* drawn heights total at most 20000 and at least 20000 - N: no overflow,
\* and an uncovered strip of at most N pixels at the bottom.
C18_DrawnInOrderScaledWithinCap ==
    (canvas # << >> /\ canvas[1].ctx)
    => LET c     == canvas[1]
           total == TotalHeight(ItemsToDraw(Loadable))
       IN  /\ DrawnInOrder(c)
           /\ total <= 20000 => SumDrawn(c.draws) = c.height
           /\ total > 20000
              => /\ c.height = 20000
                 /\ SumDrawn(c.draws) <= 20000
                 /\ SumDrawn(c.draws) >= 20000 - Len(c.draws)
                 /\ \A i \in 1..Len(c.draws) :
                       LET d == DrawnHeight(Loadable[i])
                       IN  /\ c.draws[i].h * total <= d * 20000
                           /\ d * 20000 < (c.draws[i].h + 1) * total

\* 16666 and 7142 scaled to 14000 and 5999: one row stays uncovered
C18_Witness ==
    /\ canvas # << >>
    /\ canvas[1].ctx
    /\ canvas[1].height = 20000
    /\ Len(canvas[1].draws) = 2
    /\ canvas[1].draws[1].h = 14000
    /\ canvas[1].draws[2].y = 14000
    /\ canvas[1].draws[2].h = 5999

\* a run of handleConfirmReference has finished
RunFinished == cpc = "idle" /\ finalImage # << >>

\* C19: a run of handleConfirmReference ends with isStitching false, nothing
\* staged, and either the reference image set to the non-empty composite and
\* not skipped, or the reference skipped and no reference image - the latter
\* whenever stitching returned an empty result; and a run that has not
\* ended can always go on.
C19_ConfirmAlwaysLeavesReferenceStep ==
    /\ RunFinished
       => /\ ~isStitching
          /\ stagedRefImages = << >>
          /\ \/ /\ store.referenceImage = <<"data:image/jpeg">>
                /\ ~store.isReferenceSkipped
                /\ finalImage = <<"data:image/jpeg">>
             \/ /\ store.referenceImage = << >>
                /\ store.isReferenceSkipped
                /\ finalImage[1] \in {"", "data:,"}
    /\ isStitching <=> cpc \in {"loading", "stitched"}
    /\ isStitching => ENABLED (LoadsSettled \/ LoadTimeout \/ ConfirmResumed)

\* the run ended by skipping the reference after the load of one of two
\* staged images timed out
C19_Witness ==
    /\ RunFinished
    /\ store.isReferenceSkipped
    /\ MustTimeOut
    /\ Len(images) = 2

(***************************************************************************)
(* Properties of optimizeImageForAPI.                                      *)
(***************************************************************************)

\* the promise resolved for an image that loaded with width, height >= 1
ResolvedForLoadedImage ==
    /\ opc = "resolved"
    /\ base64Str.loads
    /\ base64Str.width >= 1
    /\ base64Str.height >= 1

\* C20 as stated: the output for an image that loads is at most
\* maxDimension wide and at most maxDimension tall.
C20_Original ==
    ResolvedForLoadedImage
    => /\ optimized[1].width <= maxDimension
       /\ optimized[1].height <= maxDimension

\* C20: for an image that loads, the output drawn on the canvas is at most
\* maxDimension wide and tall: an image within the limit keeps its size, a
\* larger one has its longer side set to maxDimension and the other side
\* scaled no larger; when no 2d context is obtained the input itself is
\* returned, in its original size.
C20_CanvasOutputWithinMaxDimension ==
    ResolvedForLoadedImage
    => LET out == optimized[1]
           w   == base64Str.width
           h   == base64Str.height
           M   == maxDimension
       IN  /\ out.from = "canvas"
              => /\ out.width <= M
                 /\ out.height <= M
                 /\ (w <= M /\ h <= M) => (out.width = w /\ out.height = h)
                 /\ (w > M \/ h > M) => (out.width = M \/ out.height = M)
                 /\ (w > M \/ h > M) => (out.width <= w /\ out.height <= h)
           /\ out.from = "original" => (out.width = w /\ out.height = h)

\* a 2048 x 3000 image normalized to 699 x 1024
C20_Witness ==
    /\ ResolvedForLoadedImage
    /\ maxDimension = 1024
    /\ base64Str.width = 2048
    /\ base64Str.height = 3000
    /\ optimized = <<[from |-> "canvas", width |-> 699, height |-> 1024]>>

(***************************************************************************)
(* Properties of the workspace with its single-item handlers.              *)
(***************************************************************************)

\* the generative-AI requests awaited for the item with this id: those of
\* the single-item handlers and the one of the running batch
SingleRequests(id) ==
    {op \in ops : op.pc = "call" /\ op.key = "net" /\ op.item.id = id}

BatchRequests(id) ==
    IF /\ bpc \in {"awaitAnalyze", "awaitGenerate"}
       /\ svcPending = "net"
       /\ targets[idx].id = id
       THEN 1 ELSE 0

RequestsInFlight(id) == Cardinality(SingleRequests(id)) + BatchRequests(id)

\* C21 as stated: at most one generative-AI request is in flight for any
\* work item of the list.
C21_Original ==
    \A i \in 1..Len(store.items) : RequestsInFlight(store.items[i].id) <= 1

\* the statuses of an item, in the order of the lifecycle
Lifecycle == <<"idle", "analyzing", "selecting", "processing", "complete">>

NextStage(a, b) == \E k \in 1..(Len(Lifecycle) - 1) : Lifecycle[k] = a /\ Lifecycle[k + 1] = b

\* the status changes of this step: <<from, to>> for every item that is in
\* the list before and after the step with a different status
StatusChanges ==
    {<<store.items[p[1]].status, store'.items[p[2]].status>> :
        p \in {q \in (1..Len(store.items)) \X (1..Len(store'.items)) :
                  /\ store.items[q[1]].id = store'.items[q[2]].id
                  /\ store.items[q[1]].status # store'.items[q[2]].status}}

C26_Original ==
    \A i \in 1..Len(store.items) :
        store.items[i].status # "error" => store.items[i].error = << >>

\* C27 as stated: the selected option of an item is null or one of the
\* entries of the item's current options, index and text.
C27_Original ==
    \A i \in 1..Len(store.items) :
        \/ store.items[i].selectedOption = << >>
        \/ \E k \in 1..Len(store.items[i].copywritingOptions) :
              store.items[i].copywritingOptions[k] = store.items[i].selectedOption[1]

(***************************************************************************)
(* Properties of the ingestion of images.                                  *)
(***************************************************************************)

\* empty, shorter than 100 characters, or containing "data:,"
IsEmptyOrCorrupt(img) == img.length = 0 \/ img.length < 100 \/ img.dataComma

\* C23: no item's originalImage and no staged reference image is empty,
\* shorter than 100 characters, or contains "data:,".
C23_NoEmptyOrCorruptImageIngested ==
    /\ \A i \in 1..Len(store.items) : ~IsEmptyOrCorrupt(store.items[i].originalImage)
    /\ \A i \in 1..Len(stagedRefImages) : ~IsEmptyOrCorrupt(stagedRefImages[i])

\* the reference step was skipped and a data URL of exactly 100 characters
\* was added as the only item
C23_Witness ==
    /\ store.isReferenceSkipped
    /\ Len(store.items) = 1
    /\ store.items[1].originalImage.length = 100

(***************************************************************************)
(* Properties of the captions list of a batch analysis, over svcLog.       *)
(***************************************************************************)

Contains(seq, x) == \E i \in 1..Len(seq) : seq[i] = x

\* C24: within one batch analysis the captions list passed to the call of
\* a target contains every option text produced by the successful analyses
\* of the targets before it.
C24_LaterCallsSeeEarlierCaptions ==
    batchKind = "analyze"
    => \A j, k \in 1..Len(svcLog) :
          (j < k /\ svcLog[j].ev = "ok" /\ svcLog[k].ev = "start")
          => \A i \in 1..Len(svcLog[j].texts) :
                Contains(svcLog[k].used, svcLog[j].texts[i])

\* the third target is being analyzed after the first two succeeded with
\* different texts
C24_Witness ==
    /\ batchKind = "analyze"
    /\ bpc = "awaitAnalyze"
    /\ Len(svcLog) = 5
    /\ svcLog[2].ev = "ok"
    /\ svcLog[4].ev = "ok"
    /\ svcLog[2].texts # svcLog[4].texts
    /\ Len(svcLog[5].used) = 2 * NumOptions

(***************************************************************************)
(* Termination of a batch run.                                             *)
(***************************************************************************)

\* no target of the last batch is left in 'analyzing' or 'processing':
\* each is in 'selecting', 'complete' or 'error', or is gone from the list
TargetsSettled ==
    \A k \in 1..Len(targets), i \in 1..Len(store.items) :
        store.items[i].id = targets[k].id
        => store.items[i].status \in {"selecting", "complete", "error"}

\* C25: when every awaited call settles, a batch run ends with
\* isBatchProcessing reset to false, and after a run no target of it is
\* left in 'analyzing' or 'processing'.
C25_BatchTerminatesWithTargetsSettled ==
    /\ isBatchProcessing ~> ~isBatchProcessing
    /\ [](~isBatchProcessing => TargetsSettled)

\* a generate batch of two targets has ended, one target complete and the
\* other in error
C25_Witness ==
    /\ ~isBatchProcessing
    /\ bpc = "idle"
    /\ batchKind = "generate"
    /\ Len(targets) = 2
    /\ \E i, j \in 1..Len(store.items) :
          /\ store.items[i].status = "complete"
          /\ store.items[j].status = "error"


\* C28 (as stated): whenever the store is authenticated, userName,
\* sessionToken and apiKey are all set, whatever the interleaving of login,
\* restoreSession, checkSession, logout and service calls in flight
C28_Original ==
    store.isAuthenticated =>
        /\ store.userName # "null"
        /\ store.sessionToken # "null"
        /\ store.apiKey # "none"

\* C29: checkSession returns false, and logs out, only on the answer
\* mismatch; on a network error, the timeout, a non-OK response or a missing
\* user name or token it returns true and leaves the store as it was, and
\* the operation that awaited it proceeds
C29_CheckSessionFailsOnlyOnMismatch ==
    /\ [](lastSession # << >> =>
             LET r == lastSession[1]
             IN  /\ ~r.result <=> r.answer = "mismatch"
                 /\ r.answer = "mismatch" => r.loggedOut
                 /\ r.answer # "mismatch" => r.unchanged)
    /\ [][\A p \in tprocs :
             (p.pc = "check" /\ p \notin tprocs') =>
                 IF lastSession'[1].answer = "mismatch"
                    THEN /\ ~store'.isAuthenticated
                         /\ \A q \in tprocs' : q.n # p.n
                    ELSE /\ store'.thumbnail.status = "analyzing"
                         /\ \E q \in tprocs' : q.n = p.n /\ q.pc = "analyze"]_vars

\* a check that timed out let processThumbnail go on to its analysis
C29_Witness ==
    /\ lastSession # << >>
    /\ lastSession[1].answer = "timeout"
    /\ lastSession[1].result
    /\ store.thumbnail.status = "analyzing"
    /\ \E p \in tprocs : p.pc = "analyze"

\* C30 (as stated): when the thumbnail is as resetThumbnail or logout left
\* it, the completion of a processThumbnail run that was in flight leaves
\* the thumbnail and the items list as they are
C30_Original ==
    [][\A p \in tprocs :
         (/\ store.thumbnail = InitialThumbnail
          /\ p.pc \in {"analyze", "generate"}
          /\ p \notin tprocs') =>
             /\ store'.thumbnail = store.thumbnail
             /\ store'.items = store.items]_vars

====
